---- MODULE Spec2Model ----
(***************************************************************************)
(* Model of the AI request client of the chat assistant                    *)
(* (solution_examples/core/ai_client.py): the generate_response request    *)
(* lifecycle with its retry loop, error handlers, backoff sleeps and usage *)
(* statistics.  Every client call is a sequence of steps of one thread;    *)
(* the read and the write of each "counter += x" are separate steps, as    *)
(* the interpreter gives no atomicity for them.                            *)
(*                                                                         *)
(* Model of the conversation store (solution_examples/conversation/        *)
(* manager.py): the in-memory sequence, the conversation file with its     *)
(* temporary file and backups, the store lock, and the operations of       *)
(* ConversationManager as steps of a thread; and of the chat turn of the   *)
(* assistant (solution_examples/main.py) that joins client and store.      *)
(***************************************************************************)
EXTENDS Integers, Sequences, FiniteSets, Bags, TLC

VARIABLES
    max_retries,          \* config.max_retries
    total_requests,       \* AIClient.total_requests
    successful_requests,  \* AIClient.successful_requests
    failed_requests,      \* AIClient.failed_requests
    total_tokens_used,    \* AIClient.total_tokens_used
    total_response_time,  \* AIClient.total_response_time (clock ticks)
    pc,                   \* per thread: position inside generate_response
    caller,               \* per thread: "generate_response" or "health_check"
    attempt,              \* per thread: loop variable of _make_request_with_retry
    response,             \* per thread: the AIResponse being produced
    reg,                  \* per thread: value read by the pending "+="
    elapsed,              \* per thread: time.time() - start_time
    trace,                \* per thread: provider requests and sleeps of the call
    before,               \* per thread: the statistics when the call started
    result,               \* per thread: value returned by the last call
    health,               \* per thread: value returned by the last health_check
    outcomes,             \* bag of the outcomes returned since the last reset
    calls                 \* per thread: calls the thread may still start

VARIABLES
    auto_save,            \* config.auto_save
    backup_on_corruption, \* config.backup_on_corruption
    max_history_context,  \* config.max_history_context
    faulty,               \* whether file operations can fail in this run
    conversations,        \* ConversationManager._conversations
    file,                 \* the conversation file (file_path)
    tmp,                  \* the temporary file of a save (file_path with .tmp)
    backups,              \* the backup files created so far
    lock,                 \* ConversationManager._lock: the holding thread, or NoThread
    now,                  \* the clock that stamps new exchanges
    unsaved_removal,      \* exchanges were removed from memory and no save has succeeded since
    submitted,            \* the exchanges add_exchange has accepted
    spc,                  \* per thread: position inside a store operation
    op,                   \* per thread: the store operation running or last run
    loc,                  \* per thread: the locals of that operation
    pre,                  \* per thread: memory and files when the operation started
    sret,                 \* per thread: what the last operation returned
    ops_left,             \* per thread: store operations the thread may still start
    cpc,                  \* per thread: position inside a chat turn
    turns_left            \* per thread: chat turns the thread may still start

clientVars == <<max_retries, total_requests, successful_requests, failed_requests,
          total_tokens_used, total_response_time, pc, caller, attempt,
          response, reg, elapsed, trace, before, result, health, outcomes,
          calls>>

storeConfig == <<auto_save, backup_on_corruption, max_history_context, faulty>>

storeShared == <<conversations, file, tmp, backups, lock, now,
                 unsaved_removal, submitted>>

storeLocal == <<spc, op, loc, pre, sret, ops_left>>

storeVars == <<storeConfig, storeShared, storeLocal>>

chatVars == <<cpc, turns_left>>

\* The multi-provider AIClient of the starter code (labs/module1)
VARIABLES
    providers,               \* self.providers, the providers in order
    lab_max_retries,         \* config.ai.max_retries
    current_provider_index,  \* self.current_provider_index
    call_count,              \* self.call_count
    lab_total_tokens_used,   \* self.total_tokens_used of this client
    lpc,                     \* where the generate_response coroutine is
    lab_attempt,             \* attempt, the loop variable
    last_response,           \* last_response, None or a response
    lab_result,              \* what the last call returned, None during one
    lab_trace,               \* the requests and sleeps of the call, in order
    lab_calls_left           \* calls still to be made

labVars == <<providers, lab_max_retries, current_provider_index, call_count,
             lab_total_tokens_used, lpc, lab_attempt, last_response,
             lab_result, lab_trace, lab_calls_left>>

\* The message list of the solution AIClient
VARIABLES
    max_tokens,              \* config.max_tokens
    history,                 \* conversation_history, as the caller holds it
    custom_system_prompt,    \* the override of the last _build_messages call
    messages                 \* what the last call returned, None before it

msgVars == <<max_tokens, history, custom_system_prompt, messages>>

vars == <<clientVars, storeVars, chatVars, labVars, msgVars>>

statsVars == <<total_requests, successful_requests, failed_requests,
               total_tokens_used, total_response_time>>

----------------------------------------------------------------------------
(* Bounds *)

MaxRetries == 1          \* largest max_retries of the multi-call specification
MaxBackoffRetries == 8   \* largest max_retries of the single-call specification
MaxCalls == 4            \* calls started in one behaviour
NThreads == 2            \* threads of the concurrent specification
MaxStoreOps == 3         \* store operations started in one behaviour
MaxContext == 1          \* largest max_history_context
MaxKeep == 2             \* largest max_exchanges argument
MaxTurns == 2            \* chat turns started in one behaviour
MaxLabRetries == 3       \* largest max_retries of the starter-code client
MaxLabCalls == 2         \* calls of the starter-code client in one behaviour
MaxDate == 2             \* latest date of a date range
MaxHistory == 3          \* entries of a conversation_history
DefaultFactor == 10      \* optimize_storage keeps 10x the context window by default

----------------------------------------------------------------------------
(* Values *)

None == "None"

\* ErrorType
RATE_LIMIT == "rate_limit"
API_ERROR == "api_error"
INVALID_REQUEST == "invalid_request"
TIMEOUT == "timeout"
AUTHENTICATION == "authentication"
QUOTA_EXCEEDED == "quota_exceeded"
UNKNOWN == "unknown"

ErrorType == {RATE_LIMIT, API_ERROR, INVALID_REQUEST, TIMEOUT, AUTHENTICATION,
              QUOTA_EXCEEDED, UNKNOWN}

\* AIResponse(content, success, error_type, error_message, tokens_used,
\*            attempt_count); response_time starts at its default 0.0
AIResponse(content, success, error_type, error_message, tokens_used, attempt_count) ==
    [content |-> content, success |-> success, error_type |-> error_type,
     error_message |-> error_message, tokens_used |-> tokens_used,
     response_time |-> 0, attempt_count |-> attempt_count]

\* The default of AIResponse.attempt_count
DefaultAttemptCount == 1

\* What openai.ChatCompletion.create can return: choices[0].message.content
\* and usage.total_tokens
ProviderResponses ==
    { [content |-> "a", tokens |-> 10],
      [content |-> "b", tokens |-> 20],
      [content |-> "c", tokens |-> 30] }

\* What openai.ChatCompletion.create can raise: the classes of openai.error
\* named by the client, and one more (openai.error.Timeout)
ProviderErrors == {"RateLimitError", "APIError", "InvalidRequestError",
                   "AuthenticationError", "PermissionError", "Timeout"}

\* An exception raised while the message list is built
BuildErrors == {"TypeError"}

\* The entries of trace
ReqEvent(exc, r) ==
    [ev |-> "request", exc |-> exc, content |-> r.content, tokens |-> r.tokens,
     wait |-> 0]

NoResponse == [content |-> "", tokens |-> 0]

SleepEvent(w) ==
    [ev |-> "sleep", exc |-> None, content |-> "", tokens |-> 0, wait |-> w]

RECURSIVE Pow2(_)
Pow2(n) == IF n = 0 THEN 1 ELSE 2 * Pow2(n - 1)

Min(a, b) == IF a < b THEN a ELSE b

----------------------------------------------------------------------------
(* The error handlers.  Each returns the AIResponse it builds and the time *)
(* it slept before returning (slept is FALSE when it did not sleep).       *)

\* Variants of the rate-limit handler with one slip each: sleeping and asking
\* for a retry on the last attempt too, starting the backoff at 2 seconds,
\* and leaving out the 60-second cap
_handle_rate_limit_error_retries_last(att, mr) ==
    IF att <= mr
    THEN [slept |-> TRUE, wait |-> Min(Pow2(att), 60),
          resp |-> AIResponse("", TRUE, None, None, 0, DefaultAttemptCount)]
    ELSE [slept |-> FALSE, wait |-> 0,
          resp |-> AIResponse("", FALSE, RATE_LIMIT, "Rate limit exceeded", 0, att + 1)]

_handle_rate_limit_error_doubled(att, mr) ==
    IF att < mr
    THEN [slept |-> TRUE, wait |-> Min(Pow2(att + 1), 60),
          resp |-> AIResponse("", TRUE, None, None, 0, DefaultAttemptCount)]
    ELSE [slept |-> FALSE, wait |-> 0,
          resp |-> AIResponse("", FALSE, RATE_LIMIT, "Rate limit exceeded", 0, att + 1)]

_handle_rate_limit_error_uncapped(att, mr) ==
    IF att < mr
    THEN [slept |-> TRUE, wait |-> Pow2(att),
          resp |-> AIResponse("", TRUE, None, None, 0, DefaultAttemptCount)]
    ELSE [slept |-> FALSE, wait |-> 0,
          resp |-> AIResponse("", FALSE, RATE_LIMIT, "Rate limit exceeded", 0, att + 1)]

_handle_rate_limit_error(att, mr) ==
    IF att < mr
    THEN [slept |-> TRUE, wait |-> Min(Pow2(att), 60),
          resp |-> AIResponse("", TRUE, None, None, 0, DefaultAttemptCount)]
    ELSE [slept |-> FALSE, wait |-> 0,
          resp |-> AIResponse("", FALSE, RATE_LIMIT, "Rate limit exceeded", 0, att + 1)]

_handle_api_error(att, mr) ==
    IF att < mr
    THEN [slept |-> TRUE, wait |-> Pow2(att),
          resp |-> AIResponse("", TRUE, None, None, 0, DefaultAttemptCount)]
    ELSE [slept |-> FALSE, wait |-> 0,
          resp |-> AIResponse("", FALSE, API_ERROR, "temporarily unavailable", 0, att + 1)]

_handle_invalid_request_error ==
    [slept |-> FALSE, wait |-> 0,
     resp |-> AIResponse("", FALSE, INVALID_REQUEST, "Invalid request", 0, DefaultAttemptCount)]

_handle_authentication_error ==
    [slept |-> FALSE, wait |-> 0,
     resp |-> AIResponse("", FALSE, AUTHENTICATION, "Authentication failed", 0, DefaultAttemptCount)]

_handle_permission_error ==
    [slept |-> FALSE, wait |-> 0,
     resp |-> AIResponse("", FALSE, QUOTA_EXCEEDED, "API quota exceeded", 0, DefaultAttemptCount)]

_handle_unexpected_error(att) ==
    [slept |-> FALSE, wait |-> 0,
     resp |-> AIResponse("", FALSE, UNKNOWN, "An unexpected error occurred", 0, att + 1)]

----------------------------------------------------------------------------
(* Exception dispatch of _make_request_with_retry and generate_response    *)

\* isinstance(exc, cls): every class here derives from Exception, and the
\* openai.error classes are siblings
IsInstance(exc, cls) == cls = exc \/ cls = "Exception"

\* The clauses with the catch-all moved in front of the clauses of the
\* errors that are not retried
RetryExceptClauses_catch_all_early ==
    <<"RateLimitError", "APIError", "Exception", "InvalidRequestError",
      "AuthenticationError", "PermissionError">>

\* The except clauses of the retry loop, in source order
RetryExceptClauses ==
    <<"RateLimitError", "APIError", "InvalidRequestError",
      "AuthenticationError", "PermissionError", "Exception">>

\* An except clause that catches the provider's errors only
GenerateExceptClauses_provider_only == <<"OpenAIError">>

\* The except clause of generate_response
GenerateExceptClauses == <<"Exception">>

\* The first clause that catches exc, or None when it propagates
CatchingClause(clauses, exc) ==
    IF \E i \in 1..Len(clauses) : IsInstance(exc, clauses[i])
    THEN clauses[CHOOSE i \in 1..Len(clauses) :
                    /\ IsInstance(exc, clauses[i])
                    /\ \A j \in 1..(i - 1) : ~IsInstance(exc, clauses[j])]
    ELSE None

\* The handler the clause runs
Handle(clause, att, mr) ==
    CASE clause = "RateLimitError" -> _handle_rate_limit_error(att, mr)
      [] clause = "APIError" -> _handle_api_error(att, mr)
      [] clause = "InvalidRequestError" -> _handle_invalid_request_error
      [] clause = "AuthenticationError" -> _handle_authentication_error
      [] clause = "PermissionError" -> _handle_permission_error
      [] OTHER -> _handle_unexpected_error(att)

\* Only the rate-limit clause looks at the handler's value and goes on
\* with the loop; every other clause returns the handler's value
ClauseContinues(clause, resp) == clause = "RateLimitError" /\ resp.success

\* The return after the loop
RetriesExceeded(mr) ==
    AIResponse("", FALSE, UNKNOWN, "Maximum retry attempts exceeded", 0, mr + 1)

\* The value generate_response builds in its own except clause
error_response ==
    AIResponse("", FALSE, UNKNOWN, "Unexpected error", 0, DefaultAttemptCount)

----------------------------------------------------------------------------
(* Conversation store: values *)

\* Strings of the store are sequences of characters
Whitespace == {" "}

RECURSIVE lstrip(_)
lstrip(s) ==
    IF s = <<>> THEN s
    ELSE IF Head(s) \in Whitespace THEN lstrip(Tail(s)) ELSE s

RECURSIVE rstrip(_)
rstrip(s) ==
    IF s = <<>> THEN s
    ELSE IF s[Len(s)] \in Whitespace THEN rstrip(SubSeq(s, 1, Len(s) - 1))
    ELSE s

\* A strip that removes nothing
strip_nothing(s) == s

\* str.strip()
strip(s) == rstrip(lstrip(s))

\* An Optional value: <<>> is None, <<x>> is x
NoneValue == <<>>

Some(x) == <<x>>

\* The dataclass ConversationExchange
ConversationExchange(timestamp, user, assistant, tokens_used, model_used, response_time, metadata) ==
    [timestamp |-> timestamp, user |-> user, assistant |-> assistant,
     tokens_used |-> tokens_used, model_used |-> model_used,
     response_time |-> response_time, metadata |-> metadata]

\* JSON values
JNull == [type |-> "null", num |-> 0, str |-> <<>>, members |-> <<>>]

JNum(n) == [type |-> "number", num |-> n, str |-> <<>>, members |-> <<>>]

JStr(s) == [type |-> "string", num |-> 0, str |-> s, members |-> <<>>]

JObj(ms) == [type |-> "object", num |-> 0, str |-> <<>>, members |-> ms]

Member(k, v) == [key |-> k, value |-> v]

\* The metadata map: an ordered list of items, each a string key with an
\* integer or None as its value
Item(k, v) == [key |-> k, value |-> v]

EncodeOptInt(v) == IF v = NoneValue THEN JNull ELSE JNum(v[1])

DecodeOptInt(j) == IF j.type = "null" THEN NoneValue ELSE Some(j.num)

EncodeMetadata(m) ==
    IF m = NoneValue THEN JNull
    ELSE JObj([i \in 1..Len(m[1]) |->
                  Member(m[1][i].key, EncodeOptInt(m[1][i].value))])

DecodeMetadata(j) ==
    IF j.type = "null" THEN NoneValue
    ELSE Some([i \in 1..Len(j.members) |->
                  Item(j.members[i].key, DecodeOptInt(j.members[i].value))])

\* The value of the member named k of a JSON object
Lookup(ms, k) ==
    LET i == CHOOSE i \in 1..Len(ms) : ms[i].key = k IN ms[i].value

HasKey(ms, k) == \E i \in 1..Len(ms) : ms[i].key = k

\* ConversationExchange.to_dict followed by json.dump of the dict: the
\* members are the fields in their order of declaration
to_dict(e) ==
    JObj(<<Member("timestamp", JNum(e.timestamp)),
           Member("user", JStr(e.user)),
           Member("assistant", JStr(e.assistant)),
           Member("tokens_used", JNum(e.tokens_used)),
           Member("model_used", JStr(e.model_used)),
           Member("response_time", JNum(e.response_time)),
           Member("metadata", EncodeMetadata(e.metadata))>>)

\* data.get(key, default) on a loaded JSON object
Get(ms, k, default) == IF HasKey(ms, k) THEN Lookup(ms, k) ELSE default

\* A from_dict that reads the assistant text from the user member
from_dict_swapped(j, clock) ==
    ConversationExchange(
        Get(j.members, "timestamp", JNum(clock)).num,
        Get(j.members, "user", JStr(<<>>)).str,
        Get(j.members, "user", JStr(<<>>)).str,
        Get(j.members, "tokens_used", JNum(0)).num,
        Get(j.members, "model_used", JStr(<<>>)).str,
        Get(j.members, "response_time", JNum(0)).num,
        DecodeMetadata(Get(j.members, "metadata", JNull)))

\* ConversationExchange.from_dict on a loaded JSON object; clock is
\* datetime.now()
from_dict(j, clock) ==
    ConversationExchange(
        Get(j.members, "timestamp", JNum(clock)).num,
        Get(j.members, "user", JStr(<<>>)).str,
        Get(j.members, "assistant", JStr(<<>>)).str,
        Get(j.members, "tokens_used", JNum(0)).num,
        Get(j.members, "model_used", JStr(<<>>)).str,
        Get(j.members, "response_time", JNum(0)).num,
        DecodeMetadata(Get(j.members, "metadata", JNull)))

\* [conv.to_dict() for conv in conversations]
DumpAll(cs) == [i \in 1..Len(cs) |-> to_dict(cs[i])]

\* [ConversationExchange.from_dict(item) for item in data]
LoadAll(items, clock) == [i \in 1..Len(items) |-> from_dict(items[i], clock)]

\* Python's s[-m:] for m >= 0: the last m items, and the whole list when
\* m = 0 (or when m exceeds its length)
LastItems(s, m) ==
    IF m = 0 \/ m >= Len(s) THEN s ELSE SubSeq(s, Len(s) - m + 1, Len(s))

\* Files.  kind: "absent"; "list" (a JSON array of objects, in items);
\* "badlist" (a JSON array with an item that is not an object); "notlist"
\* (valid JSON whose top level is not an array); "garbage" (not JSON);
\* "partial" (a file opened for writing whose content is not yet complete)
File(kind, items) == [kind |-> kind, items |-> items]

Absent == File("absent", <<>>)

ListFile(items) == File("list", items)

Exists(f) == f.kind # "absent"

\* A backup file: the reason and the stamp of its name, and the content
\* copied into it
Backup(reason, stamp, f) == [reason |-> reason, stamp |-> stamp, content |-> f]

NoThread == 0

----------------------------------------------------------------------------
(* Conversation store: loading, backups, and the state after construction *)

StoreThreads == DOMAIN spc

\* The outcomes of a file operation: it succeeds (TRUE), or, where the run
\* allows failures, raises OSError (FALSE)
IOOutcomes == IF faulty THEN BOOLEAN ELSE {TRUE}

\* Memory and files, as an operation finds them
Snapshot ==
    [conversations |-> conversations, file |-> file, tmp |-> tmp,
     backups |-> backups]

EmptySnapshot ==
    [conversations |-> <<>>, file |-> Absent, tmp |-> Absent, backups |-> {}]

\* An operation and the arguments the claims read: blank says that one of
\* the texts of an add_exchange was empty after strip
Operation(name, blank, backup, k, fmt) ==
    [name |-> name, blank |-> blank, backup |-> backup, k |-> k, fmt |-> fmt]

NoOperation == Operation("none", FALSE, FALSE, NoneValue, "json")

\* The arguments of search_conversations
SearchArgs(query, case_sensitive, search_user, search_assistant, limit) ==
    [query |-> query, case_sensitive |-> case_sensitive,
     search_user |-> search_user, search_assistant |-> search_assistant,
     limit |-> limit]

NoSearch == SearchArgs(<<>>, FALSE, TRUE, TRUE, NoneValue)

NoLocals ==
    [exchange |-> NoneValue, max_exchanges |-> 0, removed_count |-> 0,
     limit |-> 0, copy |-> <<>>, cont |-> "idle", old_file |-> Absent,
     search |-> NoSearch, file_path |-> "export", start_date |-> NoneValue,
     end_date |-> NoneValue, save_failed |-> FALSE]

\* What an operation returned: the boolean, the count or the list of its
\* return value, and the file an export wrote
Returned(ok, count, items, written) ==
    [ok |-> ok, count |-> count, items |-> items, written |-> written,
     raised |-> None]

\* The outcome of a call that ends with an exception reaching the caller
Propagated(exc) ==
    [Returned(FALSE, 0, <<>>, Absent) EXCEPT !.raised = exc]

\* _create_backup(suffix): shutil.copy2 of the conversation file to a new
\* name; a failing copy (no file to copy, or an I/O failure) is swallowed.
\* Backups made by different calls carry different stamps.
_create_backup(suffix, ok) ==
    IF Exists(file) /\ ok
    THEN backups \cup {Backup(suffix, Cardinality(backups) + 1, file)}
    ELSE backups

\* What json.load and the list comprehension of _load_conversations raise
\* on a file, None when they raise nothing
LoadRaises(f) ==
    CASE f.kind \in {"garbage", "partial"} -> "JSONDecodeError"
      [] f.kind = "badlist" -> "AttributeError"
      [] OTHER -> None

\* The except clauses of _load_conversations, in order
LoadExceptClauses ==
    <<[class |-> "JSONDecodeError", error_type |-> "json_decode_error"],
      [class |-> "Exception", error_type |-> "unexpected_error"]>>

\* The first except clause that catches exc
LoadClause(exc) ==
    LET i == CHOOSE i \in 1..Len(LoadExceptClauses) :
                 /\ IsInstance(exc, LoadExceptClauses[i].class)
                 /\ \A j \in 1..(i - 1) :
                        ~IsInstance(exc, LoadExceptClauses[j].class)
    IN LoadExceptClauses[i]

\* The suffix _handle_corrupted_file gives the backup: f"corrupted_{error_type}"
Corrupted(error_type) ==
    CASE error_type = "json_decode_error" -> "corrupted_json_decode_error"
      [] error_type = "unexpected_error" -> "corrupted_unexpected_error"

\* A load that never backs up
LoadBackupReason_never(f, flag) == NoneValue

\* The backup _load_conversations asks for on the file f, None when it asks
\* for none: _handle_corrupted_file consults backup_on_corruption, the
\* branch for a top level that is not a list does not
LoadBackupReason(f, flag) ==
    IF ~Exists(f) THEN NoneValue
    ELSE IF LoadRaises(f) # None
         THEN IF flag
              THEN Some(Corrupted(LoadClause(LoadRaises(f)).error_type))
              ELSE NoneValue
    ELSE IF f.kind = "list" THEN NoneValue
    ELSE Some("invalid_format")

\* A load that leaves memory empty whatever the file holds
LoadedConversations_nothing(f, clock) == <<>>

\* The sequence _load_conversations leaves in memory
LoadedConversations(f, clock) ==
    IF f.kind = "list" THEN LoadAll(f.items, clock) ELSE <<>>

\* The backups after _load_conversations
LoadedBackups(f, flag, ok) ==
    IF LoadBackupReason(f, flag) = NoneValue THEN backups
    ELSE _create_backup(LoadBackupReason(f, flag)[1], ok)

\* Exchanges written by an earlier run
Stored(n, text) ==
    ConversationExchange(n, <<text>>, <<"r">>, 5, <<"m">>, 1,
                         Some(<<Item("attempt_count", Some(1)),
                                Item("error_type", NoneValue)>>))

\* A record that lacks the optional members
Sparse(n, text) ==
    JObj(<<Member("timestamp", JNum(n)), Member("user", JStr(<<text>>)),
           Member("assistant", JStr(<<"r">>))>>)

\* The conversation files a manager can be constructed on
InitialFiles ==
    {Absent, ListFile(<<>>), ListFile(<<to_dict(Stored(0, "p"))>>),
     ListFile(<<to_dict(Stored(0, "p")), Sparse(0, "q")>>),
     File("badlist", <<>>), File("notlist", <<>>), File("garbage", <<>>)}

\* ConversationManager.__init__ by thread 1 on one of the files, with the
\* threads T, each of which will start at most n operations
InitStore(T, files, n, flt, autos, flags, ctxs) ==
    /\ auto_save \in autos
    /\ backup_on_corruption \in flags
    /\ max_history_context \in ctxs
    /\ faulty = flt
    /\ file \in files
    /\ tmp = Absent
    /\ now = 1
    /\ lock = NoThread
    /\ conversations = LoadedConversations(file, now)
    /\ backups = IF LoadBackupReason(file, backup_on_corruption) = NoneValue
                 THEN {}
                 ELSE {Backup(LoadBackupReason(file, backup_on_corruption)[1],
                              1, file)}
    /\ unsaved_removal = FALSE
    /\ submitted = {}
    /\ spc = [t \in T |-> "idle"]
    /\ op = [t \in T |-> IF t = 1
                          THEN Operation("construct", FALSE, FALSE, NoneValue,
                                         "json")
                          ELSE NoOperation]
    /\ loc = [t \in T |-> NoLocals]
    /\ pre = [t \in T |-> [EmptySnapshot EXCEPT !.file = file]]
    /\ sret = [t \in T |-> NoneValue]
    /\ ops_left = [t \in T |-> n]

\* No chat turn is running or will run
InitNoChat(T) ==
    /\ cpc = [t \in T |-> "idle"]
    /\ turns_left = [t \in T |-> 0]

\* A store nobody uses
StoreUnused ==
    /\ InitStore({}, {Absent}, 0, FALSE, {TRUE}, {TRUE}, {0})
    /\ InitNoChat({})

\* ResponseStatus of the starter code
SUCCESS == "success"
ERROR == "error"
RATE_LIMITED == "rate_limited"
PROVIDER_ERROR == "provider_error"
ResponseStatus == {SUCCESS, ERROR, RATE_LIMITED, TIMEOUT, PROVIDER_ERROR}

\* AIResponse of the starter code
LabAIResponse(content, status, provider, tokens_used, error_message) ==
    [content |-> content, status |-> status, provider |-> provider,
     tokens_used |-> tokens_used, error_message |-> error_message]

\* AIResponse.success
success(r) == r.status = SUCCESS

\* The starter-code client after __init__, with the providers installed
InitLab(provider_lists, retries, n) ==
    /\ providers \in provider_lists
    /\ lab_max_retries \in retries
    /\ current_provider_index = 0
    /\ call_count = 0
    /\ lab_total_tokens_used = 0
    /\ lpc = "idle"
    /\ lab_attempt = 0
    /\ last_response = NoneValue
    /\ lab_result = NoneValue
    /\ lab_trace = <<>>
    /\ lab_calls_left = n

\* A starter-code client nobody calls
LabUnused == InitLab({<<>>}, {0}, 0)

\* config.system_prompt
system_prompt == <<"configured", 0>>

\* A client that builds no message list
MsgUnused ==
    /\ max_tokens = 1
    /\ history = <<>>
    /\ custom_system_prompt = NoneValue
    /\ messages = NoneValue

----------------------------------------------------------------------------
(* State *)

Threads == DOMAIN pc

Statistics ==
    [total_requests |-> total_requests,
     successful_requests |-> successful_requests,
     failed_requests |-> failed_requests,
     total_tokens_used |-> total_tokens_used,
     total_response_time |-> total_response_time]

Last(s) == s[Len(s)]

\* What the statistics remember of an outcome
Outcome(resp) == [success |-> resp.success, tokens_used |-> resp.tokens_used]

\* AIClient.__init__ on a client used by the threads T, each of which will
\* start at most n calls
InitClient(T, mrs, n) ==
    /\ max_retries \in mrs
    /\ total_requests = 0
    /\ successful_requests = 0
    /\ failed_requests = 0
    /\ total_tokens_used = 0
    /\ total_response_time = 0
    /\ pc = [t \in T |-> "idle"]
    /\ caller = [t \in T |-> None]
    /\ attempt = [t \in T |-> 0]
    /\ response = [t \in T |-> <<>>]
    /\ reg = [t \in T |-> 0]
    /\ elapsed = [t \in T |-> 0]
    /\ trace = [t \in T |-> <<>>]
    /\ before = [t \in T |-> <<>>]
    /\ result = [t \in T |-> <<>>]
    /\ health = [t \in T |-> <<>>]
    /\ outcomes = EmptyBag
    /\ calls = [t \in T |-> n]

Init == InitClient({1}, 0..MaxRetries, MaxCalls) /\ StoreUnused /\ LabUnused
    /\ MsgUnused

----------------------------------------------------------------------------
(* generate_response *)

\* Entry of the call: start_time is taken, and total_requests is read for
\* "self.total_requests += 1"
Enter(t, who) ==
    /\ pc[t] = "idle"
    /\ calls[t] > 0
    /\ calls' = [calls EXCEPT ![t] = calls[t] - 1]
    /\ caller' = [caller EXCEPT ![t] = who]
    /\ elapsed' = [elapsed EXCEPT ![t] = 0]
    /\ reg' = [reg EXCEPT ![t] = total_requests]
    /\ attempt' = [attempt EXCEPT ![t] = 0]
    /\ response' = [response EXCEPT ![t] = <<>>]
    /\ trace' = [trace EXCEPT ![t] = <<>>]
    /\ before' = [before EXCEPT ![t] = <<Statistics>>]
    /\ result' = [result EXCEPT ![t] = <<>>]
    /\ health' = [health EXCEPT ![t] = <<>>]
    /\ pc' = [pc EXCEPT ![t] = "total_store"]
    /\ UNCHANGED <<max_retries, statsVars, outcomes>>

generate_response(t) == Enter(t, "generate_response")

\* health_check calls generate_response("Hello", conversation_history=None)
health_check(t) == Enter(t, "health_check")

\* The write of "self.total_requests += 1"
StoreTotal(t) ==
    /\ pc[t] = "total_store"
    /\ total_requests' = reg[t] + 1
    /\ pc' = [pc EXCEPT ![t] = "build"]
    /\ UNCHANGED <<max_retries, successful_requests, failed_requests,
                   total_tokens_used, total_response_time, caller, attempt,
                   response, reg, elapsed, trace, before, result, health,
                   outcomes, calls>>

\* Where an exception raised inside the try block of generate_response goes:
\* to the except clause of generate_response, or out of the call
RaiseInGenerate(t, exc) ==
    IF CatchingClause(GenerateExceptClauses, exc) # None
    THEN pc' = [pc EXCEPT ![t] = "except"]
    ELSE pc' = [pc EXCEPT ![t] = "raised"]

\* _build_messages returns the message list
BuildMessages(t) ==
    /\ pc[t] = "build"
    /\ pc' = [pc EXCEPT ![t] = "request"]
    /\ UNCHANGED <<max_retries, statsVars, caller, attempt, response, reg,
                   elapsed, trace, before, result, health, outcomes, calls>>

\* _build_messages raises (a conversation_history that cannot be sliced);
\* health_check passes no history
BuildMessagesRaises(t) ==
    /\ pc[t] = "build"
    /\ caller[t] = "generate_response"
    /\ \E exc \in BuildErrors : RaiseInGenerate(t, exc)
    /\ UNCHANGED <<max_retries, statsVars, caller, attempt, response, reg,
                   elapsed, trace, before, result, health, outcomes, calls>>

\* What the retry loop does once the except clause `clause` has run its
\* handler and got resp from it: go round the loop again, leave the loop at
\* the end of the range, or return resp
AfterHandler(t, clause, resp) ==
    IF ClauseContinues(clause, resp)
    THEN IF attempt[t] + 1 < max_retries + 1
         THEN /\ attempt' = [attempt EXCEPT ![t] = attempt[t] + 1]
              /\ pc' = [pc EXCEPT ![t] = "request"]
              /\ response' = response
         ELSE /\ attempt' = attempt
              /\ pc' = [pc EXCEPT ![t] = "account"]
              /\ response' = [response EXCEPT ![t] = <<RetriesExceeded(max_retries)>>]
    ELSE /\ attempt' = attempt
         /\ pc' = [pc EXCEPT ![t] = "account"]
         /\ response' = [response EXCEPT ![t] = <<resp>>]

\* openai.ChatCompletion.create returns a response (the clock advances by
\* one tick during a provider request)
RequestReturns(t) ==
    /\ pc[t] = "request"
    /\ \E r \in ProviderResponses :
        /\ trace' = [trace EXCEPT ![t] = Append(trace[t], ReqEvent(None, r))]
        /\ response' = [response EXCEPT ![t] =
               <<AIResponse(r.content, TRUE, None, None, r.tokens, attempt[t] + 1)>>]
    /\ elapsed' = [elapsed EXCEPT ![t] = elapsed[t] + 1]
    /\ pc' = [pc EXCEPT ![t] = "account"]
    /\ UNCHANGED <<max_retries, statsVars, caller, attempt, reg, before,
                   result, health, outcomes, calls>>

\* openai.ChatCompletion.create raises: the catching clause runs its handler;
\* a handler that sleeps is left at its time.sleep
RequestRaises(t) ==
    /\ pc[t] = "request"
    /\ \E exc \in ProviderErrors :
        LET clause == CatchingClause(RetryExceptClauses, exc)
            h == Handle(clause, attempt[t], max_retries)
        IN /\ trace' = [trace EXCEPT ![t] = Append(trace[t], ReqEvent(exc, NoResponse))]
           /\ IF clause = None
              THEN RaiseInGenerate(t, exc) /\ UNCHANGED <<attempt, response>>
              ELSE IF h.slept
                   THEN /\ pc' = [pc EXCEPT ![t] = "sleep"]
                        /\ UNCHANGED <<attempt, response>>
                   ELSE AfterHandler(t, clause, h.resp)
    /\ elapsed' = [elapsed EXCEPT ![t] = elapsed[t] + 1]
    /\ UNCHANGED <<max_retries, statsVars, caller, reg, before, result,
                   health, outcomes, calls>>

\* time.sleep(wait_time) inside the handler, the handler's return and what
\* the loop does with the returned value
Sleep(t) ==
    /\ pc[t] = "sleep"
    /\ LET clause == CatchingClause(RetryExceptClauses, Last(trace[t]).exc)
           h == Handle(clause, attempt[t], max_retries)
       IN /\ trace' = [trace EXCEPT ![t] = Append(trace[t], SleepEvent(h.wait))]
          /\ elapsed' = [elapsed EXCEPT ![t] = elapsed[t] + h.wait]
          /\ AfterHandler(t, clause, h.resp)
    /\ UNCHANGED <<max_retries, statsVars, caller, reg, before, result,
                   health, outcomes, calls>>

\* "if response.success:" and the read of the counter its branch increments
AccountLoad(t) ==
    /\ pc[t] = "account"
    /\ reg' = [reg EXCEPT ![t] = IF response[t][1].success
                                 THEN successful_requests
                                 ELSE failed_requests]
    /\ pc' = [pc EXCEPT ![t] = "account_store"]
    /\ UNCHANGED <<max_retries, statsVars, caller, attempt, response, elapsed,
                   trace, before, result, health, outcomes, calls>>

\* The write of "self.successful_requests += 1" or "self.failed_requests += 1"
AccountStore(t) ==
    /\ pc[t] = "account_store"
    /\ IF response[t][1].success
       THEN /\ successful_requests' = reg[t] + 1
            /\ failed_requests' = failed_requests
            /\ pc' = [pc EXCEPT ![t] = "tokens_load"]
       ELSE /\ failed_requests' = reg[t] + 1
            /\ successful_requests' = successful_requests
            /\ pc' = [pc EXCEPT ![t] = "time_load"]
    /\ UNCHANGED <<max_retries, total_requests, total_tokens_used,
                   total_response_time, caller, attempt, response, reg,
                   elapsed, trace, before, result, health, outcomes, calls>>

\* The read of "self.total_tokens_used += response.tokens_used"
TokensLoad(t) ==
    /\ pc[t] = "tokens_load"
    /\ reg' = [reg EXCEPT ![t] = total_tokens_used]
    /\ pc' = [pc EXCEPT ![t] = "tokens_store"]
    /\ UNCHANGED <<max_retries, statsVars, caller, attempt, response, elapsed,
                   trace, before, result, health, outcomes, calls>>

\* The write of "self.total_tokens_used += response.tokens_used"
TokensStore(t) ==
    /\ pc[t] = "tokens_store"
    /\ total_tokens_used' = reg[t] + response[t][1].tokens_used
    /\ pc' = [pc EXCEPT ![t] = "time_load"]
    /\ UNCHANGED <<max_retries, total_requests, successful_requests,
                   failed_requests, total_response_time, caller, attempt,
                   response, reg, elapsed, trace, before, result, health,
                   outcomes, calls>>

\* "response.response_time = time.time() - start_time" and the read of
\* "self.total_response_time += response.response_time"
TimeLoad(t) ==
    /\ pc[t] = "time_load"
    /\ response' = [response EXCEPT ![t][1].response_time = elapsed[t]]
    /\ reg' = [reg EXCEPT ![t] = total_response_time]
    /\ pc' = [pc EXCEPT ![t] = "time_store"]
    /\ UNCHANGED <<max_retries, statsVars, caller, attempt, elapsed, trace,
                   before, result, health, outcomes, calls>>

\* The write of "self.total_response_time += response.response_time"
TimeStore(t) ==
    /\ pc[t] = "time_store"
    /\ total_response_time' = reg[t] + response[t][1].response_time
    /\ pc' = [pc EXCEPT ![t] = "return"]
    /\ UNCHANGED <<max_retries, total_requests, successful_requests,
                   failed_requests, total_tokens_used, caller, attempt,
                   response, reg, elapsed, trace, before, result, health,
                   outcomes, calls>>

\* The except clause of generate_response: the read of
\* "self.failed_requests += 1"
ExceptLoad(t) ==
    /\ pc[t] = "except"
    /\ reg' = [reg EXCEPT ![t] = failed_requests]
    /\ pc' = [pc EXCEPT ![t] = "except_store"]
    /\ UNCHANGED <<max_retries, statsVars, caller, attempt, response, elapsed,
                   trace, before, result, health, outcomes, calls>>

\* The write of "self.failed_requests += 1", and error_response is built
ExceptStore(t) ==
    /\ pc[t] = "except_store"
    /\ failed_requests' = reg[t] + 1
    /\ response' = [response EXCEPT ![t] =
                       <<[error_response EXCEPT !.response_time = elapsed[t]]>>]
    /\ pc' = [pc EXCEPT ![t] = "return"]
    /\ UNCHANGED <<max_retries, total_requests, successful_requests,
                   total_tokens_used, total_response_time, caller, attempt,
                   reg, elapsed, trace, before, result, health, outcomes,
                   calls>>

\* "return response" / "return error_response"; health_check returns
\* response.success.  The locals of the call are dropped.
Return(t) ==
    /\ pc[t] = "return"
    /\ result' = [result EXCEPT ![t] = response[t]]
    /\ health' = [health EXCEPT ![t] =
                     IF caller[t] = "health_check"
                     THEN <<response[t][1].success>> ELSE <<>>]
    /\ outcomes' = outcomes (+) SetToBag({Outcome(response[t][1])})
    /\ response' = [response EXCEPT ![t] = <<>>]
    /\ reg' = [reg EXCEPT ![t] = 0]
    /\ attempt' = [attempt EXCEPT ![t] = 0]
    /\ elapsed' = [elapsed EXCEPT ![t] = 0]
    /\ pc' = [pc EXCEPT ![t] = "idle"]
    /\ UNCHANGED <<max_retries, statsVars, caller, trace, before, calls>>

\* A reset that leaves failed_requests alone
reset_statistics_keeps_failed ==
    /\ \A t \in Threads : pc[t] = "idle"
    /\ outcomes # EmptyBag
    /\ total_requests' = 0
    /\ successful_requests' = 0
    /\ failed_requests' = failed_requests
    /\ total_tokens_used' = 0
    /\ total_response_time' = 0
    /\ outcomes' = EmptyBag
    /\ before' = [t \in Threads |-> <<>>]
    /\ UNCHANGED <<max_retries, pc, caller, attempt, response, reg, elapsed,
                   trace, result, health, calls>>

\* reset_statistics, called between two calls (the snapshots taken at the
\* start of earlier calls describe the counters before the reset and are
\* dropped)
reset_statistics ==
    /\ \A t \in Threads : pc[t] = "idle"
    /\ outcomes # EmptyBag
    /\ total_requests' = 0
    /\ successful_requests' = 0
    /\ failed_requests' = 0
    /\ total_tokens_used' = 0
    /\ total_response_time' = 0
    /\ outcomes' = EmptyBag
    /\ before' = [t \in Threads |-> <<>>]
    /\ UNCHANGED <<max_retries, pc, caller, attempt, response, reg, elapsed,
                   trace, result, health, calls>>

Step(t) ==
    \/ generate_response(t)
    \/ health_check(t)
    \/ StoreTotal(t)
    \/ BuildMessages(t)
    \/ BuildMessagesRaises(t)
    \/ RequestReturns(t)
    \/ RequestRaises(t)
    \/ Sleep(t)
    \/ AccountLoad(t)
    \/ AccountStore(t)
    \/ TokensLoad(t)
    \/ TokensStore(t)
    \/ TimeLoad(t)
    \/ TimeStore(t)
    \/ ExceptLoad(t)
    \/ ExceptStore(t)
    \/ Return(t)

\* A step of the client leaves the store and the chat turns alone
Next ==
    \/ (\E t \in Threads : Step(t)) /\ UNCHANGED <<storeVars, chatVars, labVars, msgVars>>
    \/ reset_statistics /\ UNCHANGED <<storeVars, chatVars, labVars, msgVars>>

Spec == Init /\ [][Next]_vars

----------------------------------------------------------------------------
(* get_statistics *)

\* round(num / den, 0) for den > 0, ties to the even neighbour
RoundHalfEven(num, den) ==
    LET q == num \div den
        r == num % den
    IN IF 2 * r < den THEN q
       ELSE IF 2 * r > den THEN q + 1
       ELSE IF q % 2 = 0 THEN q ELSE q + 1

\* The snapshot with the two rates truncated instead of rounded
get_statistics_truncated ==
    [total_requests |-> total_requests,
     successful_requests |-> successful_requests,
     failed_requests |-> failed_requests,
     success_rate_percent |->
         IF total_requests > 0
         THEN (successful_requests * 100 * 100) \div total_requests
         ELSE 0,
     total_tokens_used |-> total_tokens_used,
     average_response_time_seconds |->
         IF total_requests > 0
         THEN (total_response_time * 100) \div total_requests
         ELSE 0,
     max_retries_configured |-> max_retries]

\* The snapshot; success_rate_percent and average_response_time_seconds are
\* rounded to two decimals by the code and are held here in hundredths
get_statistics ==
    [total_requests |-> total_requests,
     successful_requests |-> successful_requests,
     failed_requests |-> failed_requests,
     success_rate_percent |->
         IF total_requests > 0
         THEN RoundHalfEven(successful_requests * 100 * 100, total_requests)
         ELSE 0,
     total_tokens_used |-> total_tokens_used,
     average_response_time_seconds |->
         IF total_requests > 0
         THEN RoundHalfEven(total_response_time * 100, total_requests)
         ELSE 0,
     max_retries_configured |-> max_retries]

\* One call on a client whose max_retries spans the configurable range far
\* enough for the backoff cap
InitBackoff ==
    InitClient({1}, 0..MaxBackoffRetries, 1) /\ StoreUnused /\ LabUnused
    /\ MsgUnused

SpecBackoff == InitBackoff /\ [][Next]_vars

\* The same call with its steps taken while one is possible: the thread
\* runs, each provider request returns or raises, each sleep ends
SpecBackoffFair ==
    InitBackoff /\ [][Next]_vars /\ WF_clientVars(\E t \in {1} : Step(t))

\* NThreads threads, each calling generate_response once on one client
\* whose provider answers every request
InitConc ==
    InitClient(1..NThreads, 0..MaxRetries, 1) /\ StoreUnused /\ LabUnused
    /\ MsgUnused

StepConc(t) ==
    \/ generate_response(t)
    \/ StoreTotal(t)
    \/ BuildMessages(t)
    \/ RequestReturns(t)
    \/ AccountLoad(t)
    \/ AccountStore(t)
    \/ TokensLoad(t)
    \/ TokensStore(t)
    \/ TimeLoad(t)
    \/ TimeStore(t)
    \/ Return(t)

NextConc ==
    (\E t \in Threads : StepConc(t)) /\ UNCHANGED <<storeVars, chatVars, labVars, msgVars>>

SpecConc == InitConc /\ [][NextConc]_vars

----------------------------------------------------------------------------
(* Conversation store: operations *)

Set(f, t, v) == [f EXCEPT ![t] = v]

IsBlank(s) == \A i \in 1..Len(s) : s[i] \in Whitespace

\* The texts callers pass
UserTexts == {<<>>, <<" ">>, <<" ", "a", " ">>}

AssistantTexts == {<<>>, <<" ">>, <<"b", " ">>}

\* The optional arguments of add_exchange: the defaults, and values given
DefaultDetails ==
    [tokens_used |-> 0, model_used |-> <<>>, response_time |-> 0,
     metadata |-> NoneValue]

GivenDetails ==
    [tokens_used |-> 7, model_used |-> <<"m">>, response_time |-> 2,
     metadata |-> Some(<<Item("attempt_count", Some(2)),
                         Item("error_type", NoneValue)>>)]

Details == {DefaultDetails, GivenDetails}

\* The start of an operation o by thread t
Begin(t, o) ==
    /\ spc[t] = "idle"
    /\ ops_left[t] > 0
    /\ ops_left' = Set(ops_left, t, ops_left[t] - 1)
    /\ op' = Set(op, t, o)
    /\ pre' = Set(pre, t, Snapshot)

\* ConversationManager(config) on the file as it is, by a thread of a
\* program in which no operation is running
construct(t) ==
    /\ \A u \in StoreThreads : spc[u] = "idle"
    /\ Begin(t, Operation("construct", FALSE, FALSE, NoneValue, "json"))
    /\ conversations' = LoadedConversations(file, now)
    /\ \E ok \in IOOutcomes :
           backups' = LoadedBackups(file, backup_on_corruption, ok)
    /\ unsaved_removal' = FALSE
    /\ sret' = Set(sret, t, Some(Returned(TRUE, 0, <<>>, Absent)))
    /\ loc' = Set(loc, t, NoLocals)
    /\ UNCHANGED <<storeConfig, file, tmp, lock, now, submitted, spc>>

\* self._conversations.append(exchange), dropping what was there
append_only_last(cs, e) == <<e>>

\* self._conversations.append(exchange)
append(cs, e) == Append(cs, e)

\* add_exchange up to the lock: the check of the texts and the construction
\* of the exchange
add_exchange(t, user_message, ai_response, d) ==
    /\ Begin(t, Operation("add_exchange",
                          IsBlank(user_message) \/ IsBlank(ai_response),
                          FALSE, NoneValue, "json"))
    /\ IF strip(user_message) = <<>> \/ strip(ai_response) = <<>>
       THEN /\ sret' = Set(sret, t, Some(Returned(TRUE, 0, <<>>, Absent)))
            /\ loc' = Set(loc, t, NoLocals)
            /\ UNCHANGED <<spc, now, submitted>>
       ELSE LET exchange ==
                    ConversationExchange(now, strip(user_message),
                                         strip(ai_response), d.tokens_used,
                                         d.model_used, d.response_time,
                                         d.metadata)
            IN /\ loc' = Set(loc, t, [NoLocals EXCEPT
                                          !.exchange = Some(exchange)])
               /\ submitted' = submitted \cup {exchange}
               /\ now' = now + 1
               /\ spc' = Set(spc, t, "add_lock")
               /\ sret' = Set(sret, t, NoneValue)
    /\ UNCHANGED <<storeConfig, conversations, file, tmp, backups, lock,
                   unsaved_removal>>

\* The positions that wait for the lock, and where each continues
AfterLock(p) ==
    CASE p = "add_lock" -> "add_append"
      [] p = "ctx_lock" -> "ctx_read"
      [] p = "clear_lock" -> "clear_do"
      [] p = "opt_lock" -> "opt_check"
      [] p = "exp_lock" -> "exp_copy"
      [] p = "srch_lock" -> "srch_read"
      [] p = "oai_lock" -> "oai_read"
      [] p = "flt_lock" -> "flt_read"
      [] p = "stat_lock" -> "stat_read"

LockPcs == {"add_lock", "ctx_lock", "clear_lock", "opt_lock", "exp_lock",
            "srch_lock", "oai_lock", "flt_lock", "stat_lock"}

\* "with self._lock:" entered
Acquire(t) ==
    /\ spc[t] \in LockPcs
    /\ lock = NoThread
    /\ lock' = t
    /\ spc' = Set(spc, t, AfterLock(spc[t]))
    /\ UNCHANGED <<storeConfig, conversations, file, tmp, backups, now,
                   unsaved_removal, submitted, op, loc, pre, sret, ops_left>>

\* A store that saves after every change, whatever auto_save says
AfterMutation_always_saves(t, locals, cont) ==
    /\ spc' = Set(spc, t, "save_open")
    /\ loc' = Set(loc, t, [locals EXCEPT !.cont = cont, !.old_file = file])

\* After a change of the sequence under the lock: _save_conversations if
\* auto_save is set, then the end of the with block
AfterMutation(t, locals, cont) ==
    IF auto_save
    THEN /\ spc' = Set(spc, t, "save_open")
         /\ loc' = Set(loc, t, [locals EXCEPT !.cont = cont,
                                              !.old_file = file])
    ELSE /\ spc' = Set(spc, t, cont)
         /\ loc' = Set(loc, t, locals)

AddAppend(t) ==
    /\ spc[t] = "add_append"
    /\ conversations' = append(conversations, loc[t].exchange[1])
    /\ AfterMutation(t, loc[t], "add_unlock")
    /\ UNCHANGED <<storeConfig, file, tmp, backups, lock, now,
                   unsaved_removal, submitted, op, pre, sret, ops_left>>

\* A save that writes to the conversation file itself
temp_path_is_target == "file"

\* temp_path = self.file_path.with_suffix('.tmp')
temp_path == "tmp"

\* The file at a path, and the files after a write to it
At(path) == IF path = "file" THEN file ELSE tmp

Write(path, content) ==
    IF path = "file"
    THEN file' = content /\ UNCHANGED tmp
    ELSE tmp' = content /\ UNCHANGED file

\* A save helper that takes the store lock itself
SaveOpen_takes_lock(t) ==
    /\ spc[t] = "save_open"
    /\ lock = NoThread
    /\ lock' = t
    /\ spc' = Set(spc, t, "save_write")
    /\ Write(temp_path, File("partial", <<>>))
    /\ UNCHANGED <<storeConfig, conversations, backups, now,
                   unsaved_removal, submitted, op, loc, pre, sret, ops_left>>

\* _save_conversations: open(temp_path, 'w') truncates the file, or raises
SaveOpen(t) ==
    /\ spc[t] = "save_open"
    /\ \E ok \in IOOutcomes :
           IF ok
           THEN /\ Write(temp_path, File("partial", <<>>))
                /\ spc' = Set(spc, t, "save_write")
           ELSE /\ spc' = Set(spc, t, "save_except")
                /\ UNCHANGED <<file, tmp>>
    /\ UNCHANGED <<storeConfig, conversations, backups, lock, now,
                   unsaved_removal, submitted, op, loc, pre, sret, ops_left>>

\* json.dump into the open file and its close, or a failure part-way
SaveWrite(t) ==
    /\ spc[t] = "save_write"
    /\ \E ok \in IOOutcomes :
           IF ok
           THEN /\ Write(temp_path, ListFile(DumpAll(conversations)))
                /\ spc' = Set(spc, t, "save_replace")
           ELSE /\ spc' = Set(spc, t, "save_except")
                /\ UNCHANGED <<file, tmp>>
    /\ UNCHANGED <<storeConfig, conversations, backups, lock, now,
                   unsaved_removal, submitted, op, loc, pre, sret, ops_left>>

\* temp_path.replace(self.file_path): the rename, in one step, or a failure
\* (there is none to rename, or the file system refuses)
SaveReplace(t) ==
    /\ spc[t] = "save_replace"
    /\ \E ok \in IOOutcomes :
           IF ok /\ Exists(At(temp_path))
           THEN /\ IF temp_path = "file"
                   THEN UNCHANGED <<file, tmp>>
                   ELSE file' = tmp /\ tmp' = Absent
                /\ unsaved_removal' = FALSE
                /\ spc' = Set(spc, t, loc[t].cont)
           ELSE /\ spc' = Set(spc, t, "save_except")
                /\ UNCHANGED <<file, tmp, unsaved_removal>>
    /\ UNCHANGED <<storeConfig, conversations, backups, lock, now,
                   submitted, op, loc, pre, sret, ops_left>>

\* An except clause that logs the failure and removes nothing
SaveExcept_leaves_tmp(t) ==
    /\ spc[t] = "save_except"
    /\ loc' = Set(loc, t, [loc[t] EXCEPT !.save_failed = TRUE])
    /\ spc' = Set(spc, t, loc[t].cont)
    /\ UNCHANGED <<storeConfig, conversations, file, tmp, backups, lock, now,
                   unsaved_removal, submitted, op, pre, sret, ops_left>>

\* The except clause of _save_conversations: the failure is logged
\* (save_failed) and the temporary file, if there is one, is removed
SaveExcept(t) ==
    /\ spc[t] = "save_except"
    /\ IF Exists(At(temp_path))
       THEN Write(temp_path, Absent)
       ELSE UNCHANGED <<file, tmp>>
    /\ loc' = Set(loc, t, [loc[t] EXCEPT !.save_failed = TRUE])
    /\ spc' = Set(spc, t, loc[t].cont)
    /\ UNCHANGED <<storeConfig, conversations, backups, lock, now,
                   unsaved_removal, submitted, op, pre, sret, ops_left>>

\* The records get_recent_context returns for include_metadata=False
ContextRecord(e) ==
    [user |-> e.user, assistant |-> e.assistant, timestamp |-> e.timestamp]

\* ConversationExchange.to_openai_format
to_openai_format(e) ==
    <<[role |-> "user", content |-> e.user],
      [role |-> "assistant", content |-> e.assistant]>>

\* messages.extend(exchange.to_openai_format()) over the exchanges
RECURSIVE OpenAIMessages(_)
OpenAIMessages(cs) ==
    IF cs = <<>> THEN <<>>
    ELSE to_openai_format(Head(cs)) \o OpenAIMessages(Tail(cs))

RECURSIVE SumSeq(_)
SumSeq(s) == IF s = <<>> THEN 0 ELSE Head(s) + SumSeq(Tail(s))

\* The dictionary of ConversationManager.get_statistics, without its
\* rounded averages
StoreStatistics(cs) ==
    [total_exchanges |-> Len(cs),
     first_conversation |-> IF cs = <<>> THEN NoneValue
                            ELSE Some(cs[1].timestamp),
     last_conversation |-> IF cs = <<>> THEN NoneValue
                           ELSE Some(cs[Len(cs)].timestamp),
     total_user_chars |-> SumSeq([i \in 1..Len(cs) |-> Len(cs[i].user)]),
     total_assistant_chars |->
         SumSeq([i \in 1..Len(cs) |-> Len(cs[i].assistant)]),
     total_tokens_used |-> SumSeq([i \in 1..Len(cs) |-> cs[i].tokens_used]),
     unique_models_used |->
         Cardinality({cs[i].model_used : i \in 1..Len(cs)} \ {<<>>})]

UnlockPcs == {"add_unlock", "ctx_unlock", "clear_unlock", "opt_unlock",
              "exp_unlock", "srch_unlock", "oai_unlock", "flt_unlock",
              "stat_unlock"}

\* An export goes on after its with block, and after the with block of the
\* filter_by_date it calls
ExportGoesOn(t) ==
    \/ spc[t] = "exp_unlock"
    \/ spc[t] = "flt_unlock" /\ op[t].name = "export_conversations"

\* What the other operations return after their with block
ReturnedAfterLock(t) ==
    CASE spc[t] = "add_unlock" -> Returned(TRUE, 0, <<>>, Absent)
      [] spc[t] = "ctx_unlock" ->
             Returned(TRUE, 0,
                      [i \in 1..Len(loc[t].copy) |->
                          ContextRecord(loc[t].copy[i])],
                      Absent)
      [] spc[t] = "clear_unlock" -> Returned(TRUE, 0, <<>>, Absent)
      [] spc[t] = "opt_unlock" ->
             Returned(TRUE, loc[t].removed_count, <<>>, Absent)
      [] spc[t] = "srch_unlock" -> Returned(TRUE, 0, loc[t].copy, Absent)
      [] spc[t] = "oai_unlock" ->
             Returned(TRUE, 0, OpenAIMessages(loc[t].copy), Absent)
      [] spc[t] = "flt_unlock" -> Returned(TRUE, 0, loc[t].copy, Absent)
      [] spc[t] = "stat_unlock" -> Returned(TRUE, 0, loc[t].copy, Absent)

\* An end of the with block that leaves the lock taken
Release_keeps_lock(t) ==
    /\ spc[t] \in UnlockPcs
    /\ lock' = lock
    /\ IF ExportGoesOn(t)
       THEN /\ spc' = Set(spc, t, "exp_write")
            /\ UNCHANGED sret
       ELSE /\ spc' = Set(spc, t, "idle")
            /\ sret' = Set(sret, t, Some(ReturnedAfterLock(t)))
    /\ UNCHANGED <<storeConfig, conversations, file, tmp, backups, now,
                   unsaved_removal, submitted, op, loc, pre, ops_left>>

\* The end of the with block, and what follows it: every operation but the
\* export returns
Release(t) ==
    /\ spc[t] \in UnlockPcs
    /\ lock' = NoThread
    /\ IF ExportGoesOn(t)
       THEN /\ spc' = Set(spc, t, "exp_write")
            /\ UNCHANGED sret
       ELSE /\ spc' = Set(spc, t, "idle")
            /\ sret' = Set(sret, t, Some(ReturnedAfterLock(t)))
    /\ UNCHANGED <<storeConfig, conversations, file, tmp, backups, now,
                   unsaved_removal, submitted, op, loc, pre, ops_left>>

\* get_recent_context(max_exchanges): the limit is computed before the lock
get_recent_context(t, max_exchanges) ==
    /\ Begin(t, Operation("get_recent_context", FALSE, FALSE, max_exchanges,
                          "json"))
    /\ loc' = Set(loc, t, [NoLocals EXCEPT !.limit =
                     IF max_exchanges = NoneValue \/ max_exchanges[1] = 0
                     THEN max_history_context
                     ELSE max_exchanges[1]])
    /\ spc' = Set(spc, t, "ctx_lock")
    /\ sret' = Set(sret, t, NoneValue)
    /\ UNCHANGED <<storeConfig, storeShared>>

CtxRead(t) ==
    /\ spc[t] = "ctx_read"
    /\ loc' = Set(loc, t, [loc[t] EXCEPT !.copy =
                     IF loc[t].limit > 0
                     THEN LastItems(conversations, loc[t].limit)
                     ELSE <<>>])
    /\ spc' = Set(spc, t, "ctx_unlock")
    /\ UNCHANGED <<storeConfig, storeShared, op, pre, sret, ops_left>>

\* clear_history(create_backup)
clear_history(t, create_backup) ==
    /\ Begin(t, Operation("clear_history", FALSE, create_backup, NoneValue,
                          "json"))
    /\ loc' = Set(loc, t, NoLocals)
    /\ spc' = Set(spc, t, "clear_check")
    /\ sret' = Set(sret, t, NoneValue)
    /\ UNCHANGED <<storeConfig, storeShared>>

\* "if create_backup and self._conversations:", read without the lock
ClearCheck(t) ==
    /\ spc[t] = "clear_check"
    /\ spc' = Set(spc, t, IF op[t].backup /\ conversations # <<>>
                          THEN "clear_backup"
                          ELSE "clear_lock")
    /\ UNCHANGED <<storeConfig, storeShared, op, loc, pre, sret, ops_left>>

\* self._create_backup("manual_clear"), still without the lock
ClearBackup(t) ==
    /\ spc[t] = "clear_backup"
    /\ \E ok \in IOOutcomes : backups' = _create_backup("manual_clear", ok)
    /\ spc' = Set(spc, t, "clear_lock")
    /\ UNCHANGED <<storeConfig, conversations, file, tmp, lock, now,
                   unsaved_removal, submitted, op, loc, pre, sret, ops_left>>

ClearDo(t) ==
    /\ spc[t] = "clear_do"
    /\ conversations' = <<>>
    /\ unsaved_removal' = (unsaved_removal \/ conversations # <<>>)
    /\ AfterMutation(t, loc[t], "clear_unlock")
    /\ UNCHANGED <<storeConfig, file, tmp, backups, lock, now, submitted,
                   op, pre, sret, ops_left>>

\* optimize_storage(max_exchanges): "if not max_exchanges" takes None and 0
\* alike to the default of ten times the context window
optimize_storage(t, max_exchanges) ==
    /\ Begin(t, Operation("optimize_storage", FALSE, FALSE, max_exchanges,
                          "json"))
    /\ loc' = Set(loc, t, [NoLocals EXCEPT !.max_exchanges =
                     IF max_exchanges = NoneValue \/ max_exchanges[1] = 0
                     THEN max_history_context * DefaultFactor
                     ELSE max_exchanges[1]])
    /\ spc' = Set(spc, t, "opt_lock")
    /\ sret' = Set(sret, t, NoneValue)
    /\ UNCHANGED <<storeConfig, storeShared>>

\* "if len(self._conversations) <= max_exchanges: return 0"
OptCheck(t) ==
    /\ spc[t] = "opt_check"
    /\ spc' = Set(spc, t, IF Len(conversations) <= loc[t].max_exchanges
                          THEN "opt_unlock"
                          ELSE "opt_backup")
    /\ UNCHANGED <<storeConfig, storeShared, op, loc, pre, sret, ops_left>>

\* self._create_backup("before_optimization")
OptBackup(t) ==
    /\ spc[t] = "opt_backup"
    /\ \E ok \in IOOutcomes :
           backups' = _create_backup("before_optimization", ok)
    /\ spc' = Set(spc, t, "opt_trim")
    /\ UNCHANGED <<storeConfig, conversations, file, tmp, lock, now,
                   unsaved_removal, submitted, op, loc, pre, sret, ops_left>>

\* removed_count and the slice self._conversations[-max_exchanges:]
OptTrim(t) ==
    /\ spc[t] = "opt_trim"
    /\ conversations' = LastItems(conversations, loc[t].max_exchanges)
    /\ unsaved_removal' = (unsaved_removal \/ conversations' # conversations)
    /\ AfterMutation(t, [loc[t] EXCEPT !.removed_count =
                             Len(conversations) - loc[t].max_exchanges],
                     "opt_unlock")
    /\ UNCHANGED <<storeConfig, file, tmp, backups, lock, now, submitted,
                   op, pre, sret, ops_left>>

\* The formats: JSON, and one that ConversationFormat does not know
Formats == {"json", "unsupported"}

\* export_conversations(file_path, format_type, date_range): with a date
\* range the exchanges come from filter_by_date, else from a copy made
\* under the lock
export_conversations(t, file_path, format_type, date_range) ==
    /\ Begin(t, Operation("export_conversations", FALSE, FALSE, NoneValue,
                          format_type))
    /\ IF date_range # NoneValue
       THEN /\ loc' = Set(loc, t, [NoLocals EXCEPT
                                       !.file_path = file_path,
                                       !.start_date = date_range[1][1],
                                       !.end_date = date_range[1][2]])
            /\ spc' = Set(spc, t, "flt_lock")
       ELSE /\ loc' = Set(loc, t, [NoLocals EXCEPT !.file_path = file_path])
            /\ spc' = Set(spc, t, "exp_lock")
    /\ sret' = Set(sret, t, NoneValue)
    /\ UNCHANGED <<storeConfig, storeShared>>

\* conversations = self._conversations.copy()
ExpCopy(t) ==
    /\ spc[t] = "exp_copy"
    /\ loc' = Set(loc, t, [loc[t] EXCEPT !.copy = conversations])
    /\ spc' = Set(spc, t, "exp_unlock")
    /\ UNCHANGED <<storeConfig, storeShared, op, pre, sret, ops_left>>

\* What the format dispatch of export_conversations raises: the ValueError
\* of the else branch, the error of a failing write, or nothing
ExportRaises(format_type, ok) ==
    IF format_type # "json" THEN "ValueError"
    ELSE IF ~ok THEN "OSError"
    ELSE None

\* The except clauses of export_conversations
ExportExceptClauses == <<"Exception">>

\* Whether one of the except clauses catches exc
ExportCatches(exc) ==
    \E i \in DOMAIN ExportExceptClauses :
        IsInstance(exc, ExportExceptClauses[i])

\* The rest of the export, after the lock: nothing to export returns False;
\* _export_json writes the records; what the dispatch raises inside the try
\* is caught by the except clause, which returns False.  The file written
\* is the one at file_path, which may be the conversation file
ExpWrite(t) ==
    /\ spc[t] = "exp_write"
    /\ \E ok \in IOOutcomes :
           LET exc == ExportRaises(op[t].fmt, ok)
               written == IF op[t].fmt # "json" THEN Absent
                          ELSE IF ok THEN ListFile(DumpAll(loc[t].copy))
                          ELSE File("partial", <<>>)
           IN /\ sret' = Set(sret, t, Some(
                     IF loc[t].copy = <<>>
                     THEN Returned(FALSE, 0, <<>>, Absent)
                     ELSE IF exc = None THEN Returned(TRUE, 0, <<>>, written)
                     ELSE IF ExportCatches(exc)
                          THEN Returned(FALSE, 0, <<>>, written)
                     ELSE [Propagated(exc) EXCEPT !.written = written]))
              /\ file' = IF /\ loc[t].file_path = "file"
                            /\ loc[t].copy # <<>>
                            /\ Exists(written)
                         THEN written
                         ELSE file
    /\ spc' = Set(spc, t, "idle")
    /\ UNCHANGED <<storeConfig, conversations, tmp, backups, lock, now,
                   unsaved_removal, submitted, op, loc, pre, ops_left>>

\* The optional count arguments callers pass
Counts == {NoneValue} \cup {Some(k) : k \in 0..MaxKeep}

\* The steps inside the operations
Inside(t) ==
    \/ Acquire(t)
    \/ AddAppend(t)
    \/ SaveOpen(t)
    \/ SaveWrite(t)
    \/ SaveReplace(t)
    \/ SaveExcept(t)
    \/ Release(t)
    \/ CtxRead(t)
    \/ ClearCheck(t)
    \/ ClearBackup(t)
    \/ ClearDo(t)
    \/ OptCheck(t)
    \/ OptBackup(t)
    \/ OptTrim(t)
    \/ ExpCopy(t)
    \/ ExpWrite(t)

\* The operations a program may call, with every argument
Call(t) ==
    \/ construct(t)
    \/ \E u \in UserTexts, a \in AssistantTexts, d \in Details :
           add_exchange(t, u, a, d)
    \/ \E k \in Counts : get_recent_context(t, k)
    \/ \E b \in BOOLEAN : clear_history(t, b)
    \/ \E k \in Counts : optimize_storage(t, k)
    \/ \E f \in Formats : export_conversations(t, "export", f, NoneValue)

NextStore ==
    \/ (\E t \in StoreThreads : Call(t)) /\ UNCHANGED <<clientVars, chatVars, labVars, msgVars>>
    \/ (\E t \in StoreThreads : Inside(t)) /\ UNCHANGED <<clientVars, chatVars, labVars, msgVars>>

ClientUnused == InitClient({}, {0}, 0)

\* One thread, file operations that do not fail
InitSeq ==
    /\ InitStore({1}, InitialFiles, MaxStoreOps, FALSE, BOOLEAN, BOOLEAN,
                 0..MaxContext)
    /\ InitNoChat({1})
    /\ ClientUnused
    /\ LabUnused
    /\ MsgUnused

SpecStore == InitSeq /\ [][NextStore]_vars

\* The files of the runs in which file operations may fail
FilesIO ==
    {Absent, ListFile(<<to_dict(Stored(0, "p"))>>), File("garbage", <<>>)}

\* One thread, file operations that may fail
InitIO ==
    /\ InitStore({1}, FilesIO, MaxStoreOps, TRUE, BOOLEAN, BOOLEAN,
                 0..MaxContext)
    /\ InitNoChat({1})
    /\ ClientUnused
    /\ LabUnused
    /\ MsgUnused

SpecStoreIO == InitIO /\ [][NextStore]_vars

\* str.lower(), on the letters the model uses
LowerChar(c) ==
    CASE c = "A" -> "a"
      [] c = "B" -> "b"
      [] OTHER -> c

lower(s) == [i \in 1..Len(s) |-> LowerChar(s[i])]

\* "q in text": q occurs in text as a substring
Contains(text, q) ==
    \E i \in 0..(Len(text) - Len(q)) : SubSeq(text, i + 1, i + Len(q)) = q

\* The body of the loop of search_conversations up to match_found
MatchFound(exchange, a) ==
    LET search_query == IF a.case_sensitive THEN a.query ELSE lower(a.query)
        user_text == IF a.case_sensitive
                     THEN exchange.user
                     ELSE lower(exchange.user)
        assistant_text == IF a.case_sensitive
                          THEN exchange.assistant
                          ELSE lower(exchange.assistant)
        in_user == a.search_user /\ Contains(user_text, search_query)
    IN in_user \/ (a.search_assistant /\ ~in_user
                      /\ Contains(assistant_text, search_query))

\* The loop of search_conversations from the i-th exchange on: a match is
\* appended, and "if limit and len(results) >= limit: break"
RECURSIVE SearchLoop(_, _, _, _)
SearchLoop(cs, a, i, results) ==
    IF i > Len(cs) THEN results
    ELSE IF MatchFound(cs[i], a)
         THEN LET r == Append(results, cs[i])
              IN IF a.limit # NoneValue /\ a.limit[1] # 0
                    /\ Len(r) >= a.limit[1]
                 THEN r
                 ELSE SearchLoop(cs, a, i + 1, r)
    ELSE SearchLoop(cs, a, i + 1, results)

\* search_conversations up to the lock: a query that is empty after strip
\* returns the empty list
search_conversations(t, a) ==
    /\ Begin(t, Operation("search_conversations", FALSE, FALSE, NoneValue,
                          "json"))
    /\ loc' = Set(loc, t, [NoLocals EXCEPT !.search = a])
    /\ IF strip(a.query) = <<>>
       THEN /\ sret' = Set(sret, t, Some(Returned(TRUE, 0, <<>>, Absent)))
            /\ UNCHANGED spc
       ELSE /\ sret' = Set(sret, t, NoneValue)
            /\ spc' = Set(spc, t, "srch_lock")
    /\ UNCHANGED <<storeConfig, storeShared>>

\* The loop over self._conversations, under the lock
SearchRead(t) ==
    /\ spc[t] = "srch_read"
    /\ loc' = Set(loc, t, [loc[t] EXCEPT !.copy =
                     SearchLoop(conversations, loc[t].search, 1, <<>>)])
    /\ spc' = Set(spc, t, "srch_unlock")
    /\ UNCHANGED <<storeConfig, storeShared, op, pre, sret, ops_left>>

\* The queries and the arguments callers pass
Queries ==
    {<<>>, <<" ">>, <<"a", "b">>, <<"A", "b">>, <<"A", "B">>, <<"b">>,
     <<"c">>, <<"d">>}

Searches ==
    {SearchArgs(q, cs, su, sa, l) :
        q \in Queries, cs \in BOOLEAN, su \in BOOLEAN, sa \in BOOLEAN,
        l \in Counts}

\* A stored exchange with the given texts
Spoken(n, user, assistant) ==
    ConversationExchange(n, user, assistant, 0, <<>>, 0, NoneValue)

\* The files of the runs that search: none, and one with three exchanges
\* whose texts differ in case and in the field that holds them
FilesSearch ==
    {Absent,
     ListFile(<<to_dict(Spoken(0, <<"A", "b">>, <<"c">>)),
                to_dict(Spoken(0, <<"c">>, <<"a", "B">>)),
                to_dict(Spoken(0, <<"a", "b">>, <<"a", "b">>))>>)}

NextSearch ==
    \/ (\E t \in StoreThreads, a \in Searches : search_conversations(t, a))
       /\ UNCHANGED <<clientVars, chatVars, labVars, msgVars>>
    \/ (\E t \in StoreThreads : Acquire(t) \/ SearchRead(t) \/ Release(t))
       /\ UNCHANGED <<clientVars, chatVars, labVars, msgVars>>

\* One thread that searches
InitSearch ==
    /\ InitStore({1}, FilesSearch, MaxStoreOps, FALSE, {FALSE}, {TRUE},
                 {MaxContext})
    /\ InitNoChat({1})
    /\ ClientUnused
    /\ LabUnused
    /\ MsgUnused

SpecSearch == InitSearch /\ [][NextSearch]_vars

----------------------------------------------------------------------------
(* The multi-provider AIClient of the starter code *)

\* What the i-th provider answers with the given status
ProviderReply(i, status) ==
    LabAIResponse(IF status = SUCCESS THEN "reply" ELSE "", status,
                  providers[i + 1], IF status = SUCCESS THEN 1 ELSE 0,
                  IF status = SUCCESS THEN None ELSE status)

\* One entry of the record of a call: a request to provider i and how it
\* ended (a status, or "raised"), or a sleep of `wait` seconds
LabEvent(kind, att, i, how, wait) ==
    [kind |-> kind, attempt |-> att, provider |-> i, how |-> how,
     wait |-> wait]

\* generate_response: _build_messages, last_response = None, and the loop
\* "for attempt in range(max_retries)" is entered
lab_generate_response ==
    /\ lpc = "idle"
    /\ lab_calls_left > 0
    /\ lab_calls_left' = lab_calls_left - 1
    /\ lab_attempt' = 0
    /\ last_response' = NoneValue
    /\ lab_result' = NoneValue
    /\ lab_trace' = <<>>
    /\ lpc' = "loop"
    /\ UNCHANGED <<providers, lab_max_retries, current_provider_index,
                   call_count, lab_total_tokens_used>>

\* "return last_response or AIResponse(... 'All retry attempts exhausted')"
Exhausted ==
    IF last_response # NoneValue THEN last_response[1]
    ELSE LabAIResponse("", ERROR, "unknown", 0,
                       "All retry attempts exhausted")

\* A loop that gives every provider max_retries attempts
LabLoop_per_provider ==
    /\ lpc = "loop"
    /\ IF lab_attempt < lab_max_retries * Len(providers)
       THEN /\ lpc' = "request"
            /\ UNCHANGED lab_result
       ELSE /\ lpc' = "idle"
            /\ lab_result' = Some(Exhausted)
    /\ UNCHANGED <<providers, lab_max_retries, current_provider_index,
                   call_count, lab_total_tokens_used, lab_attempt,
                   last_response, lab_trace, lab_calls_left>>

\* The head of the for loop: the next attempt awaits the current provider,
\* or the loop is over and the call returns
LabLoop ==
    /\ lpc = "loop"
    /\ IF lab_attempt < lab_max_retries
       THEN /\ lpc' = "request"
            /\ UNCHANGED lab_result
       ELSE /\ lpc' = "idle"
            /\ lab_result' = Some(Exhausted)
    /\ UNCHANGED <<providers, lab_max_retries, current_provider_index,
                   call_count, lab_total_tokens_used, lab_attempt,
                   last_response, lab_trace, lab_calls_left>>

\* The index after a failure that is not a rate limit
NextProvider_stays(i) == i

NextProvider(i) ==
    IF Len(providers) > 1 THEN (i + 1) % Len(providers) ELSE i

\* The provider answers with a response: a success is counted and returned;
\* a rate limit goes to the sleep; any other failure moves to the next
\* provider and becomes last_response
LabReply(status) ==
    /\ lpc = "request"
    /\ LET reply == ProviderReply(current_provider_index, status)
       IN /\ lab_trace' = Append(lab_trace,
                 LabEvent("request", lab_attempt, current_provider_index,
                          status, 0))
          /\ IF success(reply)
             THEN /\ call_count' = call_count + 1
                  /\ lab_total_tokens_used' =
                         lab_total_tokens_used + reply.tokens_used
                  /\ lab_result' = Some(reply)
                  /\ lpc' = "idle"
                  /\ UNCHANGED <<current_provider_index, last_response,
                                 lab_attempt>>
             ELSE IF reply.status = RATE_LIMITED
             THEN /\ lpc' = "sleep"
                  /\ UNCHANGED <<current_provider_index, last_response,
                                 lab_attempt, call_count,
                                 lab_total_tokens_used, lab_result>>
             ELSE /\ current_provider_index' =
                         NextProvider(current_provider_index)
                  /\ last_response' = Some(reply)
                  /\ lab_attempt' = lab_attempt + 1
                  /\ lpc' = "loop"
                  /\ UNCHANGED <<call_count, lab_total_tokens_used,
                                 lab_result>>
    /\ UNCHANGED <<providers, lab_max_retries, lab_calls_left>>

\* The provider raises: "except Exception" makes the error response
LabRaise ==
    /\ lpc = "request"
    /\ lab_trace' = Append(lab_trace,
           LabEvent("request", lab_attempt, current_provider_index,
                    "raised", 0))
    /\ last_response' = Some(LabAIResponse("", ERROR, "unknown", 0,
                                           "Unexpected error"))
    /\ lab_attempt' = lab_attempt + 1
    /\ lpc' = "loop"
    /\ UNCHANGED <<providers, lab_max_retries, current_provider_index,
                   call_count, lab_total_tokens_used, lab_result,
                   lab_calls_left>>

\* "wait_time = 2 ** attempt; await asyncio.sleep(wait_time); continue"
LabSleep ==
    /\ lpc = "sleep"
    /\ lab_trace' = Append(lab_trace,
           LabEvent("sleep", lab_attempt, current_provider_index, "slept",
                    Pow2(lab_attempt)))
    /\ lab_attempt' = lab_attempt + 1
    /\ lpc' = "loop"
    /\ UNCHANGED <<providers, lab_max_retries, current_provider_index,
                   call_count, lab_total_tokens_used, last_response,
                   lab_result, lab_calls_left>>

NextLab ==
    \/ lab_generate_response /\ UNCHANGED <<clientVars, storeVars, chatVars, msgVars>>
    \/ LabLoop /\ UNCHANGED <<clientVars, storeVars, chatVars, msgVars>>
    \/ (\E status \in ResponseStatus : LabReply(status))
       /\ UNCHANGED <<clientVars, storeVars, chatVars, msgVars>>
    \/ LabRaise /\ UNCHANGED <<clientVars, storeVars, chatVars, msgVars>>
    \/ LabSleep /\ UNCHANGED <<clientVars, storeVars, chatVars, msgVars>>

\* The lists of providers a client is run with
ProviderLists == {<<"primary">>, <<"primary", "fallback">>}

\* A starter-code client and its calls, one after the other
InitLabCalls ==
    /\ InitLab(ProviderLists, 0..MaxLabRetries, MaxLabCalls)
    /\ ClientUnused
    /\ StoreUnused
    /\ MsgUnused

SpecLab == InitLabCalls /\ [][NextLab]_vars

\* The steps inside add_exchange
InsideAdd(t) ==
    \/ Acquire(t)
    \/ AddAppend(t)
    \/ SaveOpen(t)
    \/ SaveWrite(t)
    \/ SaveReplace(t)
    \/ SaveExcept(t)
    \/ Release(t)

\* The texts with something in them
NonEmpty(texts) == {s \in texts : ~IsBlank(s)}

NextAdds ==
    \/ (\E t \in StoreThreads, u \in NonEmpty(UserTexts),
            a \in NonEmpty(AssistantTexts) :
            add_exchange(t, u, a, GivenDetails))
       /\ UNCHANGED <<clientVars, chatVars, labVars, msgVars>>
    \/ (\E t \in StoreThreads : InsideAdd(t))
       /\ UNCHANGED <<clientVars, chatVars, labVars, msgVars>>

\* NThreads threads that each call add_exchange once on one manager with
\* auto_save on, file operations that do not fail
InitAdds ==
    /\ InitStore(1..NThreads, {Absent, ListFile(<<to_dict(Stored(0, "p"))>>)},
                 1, FALSE, {TRUE}, BOOLEAN, {MaxContext})
    /\ InitNoChat(1..NThreads)
    /\ ClientUnused
    /\ LabUnused
    /\ MsgUnused

SpecAdds == InitAdds /\ [][NextAdds]_vars

----------------------------------------------------------------------------
(* Conversation store: the other read operations *)

\* get_openai_context(max_exchanges): the limit is as in get_recent_context
get_openai_context(t, max_exchanges) ==
    /\ Begin(t, Operation("get_openai_context", FALSE, FALSE, max_exchanges,
                          "json"))
    /\ loc' = Set(loc, t, [NoLocals EXCEPT !.limit =
                     IF max_exchanges = NoneValue \/ max_exchanges[1] = 0
                     THEN max_history_context
                     ELSE max_exchanges[1]])
    /\ spc' = Set(spc, t, "oai_lock")
    /\ sret' = Set(sret, t, NoneValue)
    /\ UNCHANGED <<storeConfig, storeShared>>

OaiRead(t) ==
    /\ spc[t] = "oai_read"
    /\ loc' = Set(loc, t, [loc[t] EXCEPT !.copy =
                     IF loc[t].limit > 0
                     THEN LastItems(conversations, loc[t].limit)
                     ELSE <<>>])
    /\ spc' = Set(spc, t, "oai_unlock")
    /\ UNCHANGED <<storeConfig, storeShared, op, pre, sret, ops_left>>

\* The test of filter_by_date on one exchange: both ends are inclusive
InRange(e, start_date, end_date) ==
    /\ start_date = NoneValue \/ e.timestamp >= start_date[1]
    /\ end_date = NoneValue \/ e.timestamp <= end_date[1]

\* filter_by_date(start_date, end_date)
filter_by_date(t, start_date, end_date) ==
    /\ Begin(t, Operation("filter_by_date", FALSE, FALSE, NoneValue, "json"))
    /\ loc' = Set(loc, t, [NoLocals EXCEPT !.start_date = start_date,
                                           !.end_date = end_date])
    /\ spc' = Set(spc, t, "flt_lock")
    /\ sret' = Set(sret, t, NoneValue)
    /\ UNCHANGED <<storeConfig, storeShared>>

\* The loop of filter_by_date, under the lock
FltRead(t) ==
    /\ spc[t] = "flt_read"
    /\ LET Test(e) == InRange(e, loc[t].start_date, loc[t].end_date)
       IN loc' = Set(loc, t, [loc[t] EXCEPT !.copy =
                        SelectSeq(conversations, Test)])
    /\ spc' = Set(spc, t, "flt_unlock")
    /\ UNCHANGED <<storeConfig, storeShared, op, pre, sret, ops_left>>

\* ConversationManager.get_statistics()
store_get_statistics(t) ==
    /\ Begin(t, Operation("get_statistics", FALSE, FALSE, NoneValue, "json"))
    /\ loc' = Set(loc, t, NoLocals)
    /\ spc' = Set(spc, t, "stat_lock")
    /\ sret' = Set(sret, t, NoneValue)
    /\ UNCHANGED <<storeConfig, storeShared>>

StatRead(t) ==
    /\ spc[t] = "stat_read"
    /\ loc' = Set(loc, t, [loc[t] EXCEPT !.copy =
                     <<StoreStatistics(conversations)>>])
    /\ spc' = Set(spc, t, "stat_unlock")
    /\ UNCHANGED <<storeConfig, storeShared, op, pre, sret, ops_left>>

\* The dates callers pass: none, or a time on the clock of the model
Dates == {NoneValue} \cup {Some(d) : d \in 0..MaxDate}

DateRanges == {NoneValue} \cup {Some(<<s, e>>) : s \in Dates, e \in Dates}

\* The paths an export is given: a file of its own, or the conversation
\* file ("/save <name>" takes the name the user types)
ExportPaths == {"export", "file"}

\* The read operations, with their arguments
ReadCall(t) ==
    \/ \E k \in Counts : get_recent_context(t, k)
    \/ \E k \in Counts : get_openai_context(t, k)
    \/ \E q \in Queries, l \in Counts :
           search_conversations(t, SearchArgs(q, FALSE, TRUE, TRUE, l))
    \/ \E s \in Dates, e \in Dates : filter_by_date(t, s, e)
    \/ store_get_statistics(t)
    \/ \E path \in ExportPaths, f \in Formats, r \in DateRanges :
           export_conversations(t, path, f, r)

\* The steps inside add_exchange and the read operations
InsideRead(t) ==
    \/ InsideAdd(t)
    \/ CtxRead(t)
    \/ OaiRead(t)
    \/ SearchRead(t)
    \/ FltRead(t)
    \/ StatRead(t)
    \/ ExpCopy(t)
    \/ ExpWrite(t)

NextReads ==
    \/ (\E t \in StoreThreads, u \in NonEmpty(UserTexts),
            a \in NonEmpty(AssistantTexts) :
            add_exchange(t, u, a, GivenDetails))
       /\ UNCHANGED <<clientVars, chatVars, labVars, msgVars>>
    \/ (\E t \in StoreThreads : ReadCall(t))
       /\ UNCHANGED <<clientVars, chatVars, labVars, msgVars>>
    \/ (\E t \in StoreThreads : InsideRead(t))
       /\ UNCHANGED <<clientVars, chatVars, labVars, msgVars>>

\* One thread that adds exchanges and reads, with auto_save on or off
InitReads ==
    /\ InitStore({1}, {Absent, ListFile(<<to_dict(Stored(0, "p"))>>)},
                 MaxStoreOps, FALSE, BOOLEAN, {TRUE}, {MaxContext})
    /\ InitNoChat({1})
    /\ ClientUnused
    /\ LabUnused
    /\ MsgUnused

SpecReads == InitReads /\ [][NextReads]_vars

\* The operations of the threads that share a store
SharedCall(t) ==
    \/ \E u \in NonEmpty(UserTexts), a \in NonEmpty(AssistantTexts) :
           add_exchange(t, u, a, GivenDetails)
    \/ \E b \in BOOLEAN : clear_history(t, b)
    \/ \E k \in Counts : optimize_storage(t, k)
    \/ \E r \in {NoneValue, Some(<<NoneValue, Some(0)>>)} :
           export_conversations(t, "export", "json", r)
    \/ filter_by_date(t, Some(0), NoneValue)
    \/ get_recent_context(t, NoneValue)
    \/ get_openai_context(t, NoneValue)
    \/ search_conversations(t, SearchArgs(<<"a">>, FALSE, TRUE, TRUE,
                                          NoneValue))
    \/ store_get_statistics(t)

\* One step of thread t inside its operation
SharedStep(t) == Inside(t) \/ InsideRead(t)

NextShared ==
    \/ (\E t \in StoreThreads : SharedCall(t))
       /\ UNCHANGED <<clientVars, chatVars, labVars, msgVars>>
    \/ (\E t \in StoreThreads : SharedStep(t))
       /\ UNCHANGED <<clientVars, chatVars, labVars, msgVars>>

\* The two threads that share a store
SharedThreads == {1, 2}

\* Two threads on one store, one operation each, on a file of two exchanges
InitShared ==
    /\ InitStore(SharedThreads,
                 {ListFile(<<to_dict(Stored(0, "p")), to_dict(Stored(0, "q"))>>)},
                 1, FALSE, BOOLEAN, {TRUE}, {MaxContext})
    /\ InitNoChat(SharedThreads)
    /\ ClientUnused
    /\ LabUnused
    /\ MsgUnused

SpecShared == InitShared /\ [][NextShared]_vars

\* Every thread that can take a step of its operation takes one in the end
SpecSharedFair ==
    SpecShared /\ \A t \in SharedThreads : WF_storeVars(SharedStep(t))

----------------------------------------------------------------------------
(* Solution AIClient: the message list *)

\* a // b of Python, the floor of the quotient, for b > 0
FloorDiv(a, b) == IF a >= 0 THEN a \div b ELSE -((-a + b - 1) \div b)

\* s[k:] of Python: a negative k counts from the end
SliceFrom(s, k) ==
    LET start == IF k < 0
                 THEN (IF Len(s) + k < 0 THEN 0 ELSE Len(s) + k)
                 ELSE Min(k, Len(s))
    IN SubSeq(s, start + 1, Len(s))

\* The entries of a history: a dict with the keys user and assistant, or a
\* dict with the keys role and content; n tells the entries apart
PairEntry(n) == [kind |-> "pair", n |-> n]

MessageEntry(n) == [kind |-> "message", n |-> n]

Message(role, content) == [role |-> role, content |-> content]

\* The messages _build_messages appends for one entry of the history
EntryMessages(exchange) ==
    IF exchange.kind = "pair"
    THEN <<Message("user", <<"user", exchange.n>>),
           Message("assistant", <<"assistant", exchange.n>>)>>
    ELSE <<Message("assistant", <<"content", exchange.n>>)>>

RECURSIVE RecentMessages(_)
RecentMessages(recent_history) ==
    IF recent_history = <<>> THEN <<>>
    ELSE EntryMessages(Head(recent_history))
             \o RecentMessages(Tail(recent_history))

\* The index of "history[-self.config.max_tokens // 100:]": the minus sign
\* binds before the division
HistoryLimit(tokens) == FloorDiv(-tokens, 100)

\* The override that is the empty string
EmptyPrompt == <<"", 0>>

\* _build_messages(user_message, history, custom_system_prompt)
_build_messages(user_message, hist, custom) ==
    LET prompt == IF custom = NoneValue \/ custom[1] = EmptyPrompt
                  THEN system_prompt
                  ELSE custom[1]
        recent_history == IF hist = <<>> THEN <<>>
                          ELSE SliceFrom(hist, HistoryLimit(max_tokens))
    IN <<Message("system", prompt)>>
           \o RecentMessages(recent_history)
           \o <<Message("user", user_message)>>

\* The message of the user in the call
CurrentMessage == <<"current", 0>>

CustomPrompts == {NoneValue, Some(EmptyPrompt), Some(<<"override", 0>>)}

\* The caller's history grows by one entry
Lengthen ==
    /\ Len(history) < MaxHistory
    /\ \E e \in {PairEntry(Len(history) + 1), MessageEntry(Len(history) + 1)} :
           history' = Append(history, e)
    /\ messages' = NoneValue
    /\ custom_system_prompt' = NoneValue
    /\ UNCHANGED max_tokens

\* One call of _build_messages
Build ==
    /\ \E custom \in CustomPrompts :
           /\ custom_system_prompt' = custom
           /\ messages' = Some(_build_messages(CurrentMessage, history, custom))
    /\ UNCHANGED <<max_tokens, history>>

NextMessages ==
    \/ Lengthen /\ UNCHANGED <<clientVars, storeVars, chatVars, labVars>>
    \/ Build /\ UNCHANGED <<clientVars, storeVars, chatVars, labVars>>

\* The values AIConfig.from_environment accepts for MAX_TOKENS
MaxTokensRange == 1..4096

InitMessages ==
    /\ max_tokens \in MaxTokensRange
    /\ history = <<>>
    /\ custom_system_prompt = NoneValue
    /\ messages = NoneValue
    /\ ClientUnused
    /\ StoreUnused
    /\ LabUnused

SpecMessages == InitMessages /\ [][NextMessages]_vars

----------------------------------------------------------------------------
(* Reading a finished call *)

Completed(t) == pc[t] = "idle" /\ result[t] # <<>>

Res(t) == result[t][1]

IsRequest(e) == e.ev = "request"

IsSleep(e) == e.ev = "sleep"

Requests(t) == SelectSeq(trace[t], IsRequest)

Sleeps(t) ==
    LET ss == SelectSeq(trace[t], IsSleep)
    IN [i \in 1..Len(ss) |-> ss[i].wait]

\* Every provider request of the call raised exc, and there was one
AllRaised(t, exc) ==
    /\ Requests(t) # <<>>
    /\ \A i \in 1..Len(Requests(t)) : Requests(t)[i].exc = exc

\* Requests and sleeps alternate, a request first and a request last
Alternates(t) ==
    /\ Len(trace[t]) % 2 = 1
    /\ \A i \in 1..Len(trace[t]) :
          IF i % 2 = 1 THEN IsRequest(trace[t][i]) ELSE IsSleep(trace[t][i])

----------------------------------------------------------------------------
(* Claims *)

\* C1: a call in which every provider request raises a rate-limit error
\* issues exactly max_retries+1 requests and returns a failure with
\* error_type RATE_LIMIT and attempt_count = max_retries+1.
C1_RateLimitExhausted ==
    \A t \in Threads :
        /\ Len(Requests(t)) <= max_retries + 1
        /\ (Completed(t) /\ AllRaised(t, "RateLimitError")) =>
              /\ Len(Requests(t)) = max_retries + 1
              /\ ~Res(t).success
              /\ Res(t).error_type = RATE_LIMIT
              /\ Res(t).attempt_count = max_retries + 1

C1_Witness ==
    \E t \in Threads :
        Completed(t) /\ AllRaised(t, "RateLimitError") /\ max_retries >= 3

\* C2: with max_retries >= 1, a call whose first request raises a rate-limit
\* error and whose second request succeeds returns a success carrying the
\* second request's content with attempt_count = 2, after exactly two
\* requests and exactly one sleep, of 1 second, between them.
C2_RetryThenSuccess ==
    \A t \in Threads :
        ( /\ Completed(t)
          /\ Len(Requests(t)) >= 2
          /\ Requests(t)[1].exc = "RateLimitError"
          /\ Requests(t)[2].exc = None ) =>
              /\ max_retries >= 1
              /\ Res(t).success
              /\ Res(t).content = Requests(t)[2].content
              /\ Res(t).tokens_used = Requests(t)[2].tokens
              /\ Res(t).attempt_count = 2
              /\ Len(Requests(t)) = 2
              /\ Len(trace[t]) = 3
              /\ trace[t][2] = SleepEvent(1)

C2_Witness ==
    \E t \in Threads :
        /\ Completed(t)
        /\ Len(Requests(t)) = 2
        /\ Requests(t)[1].exc = "RateLimitError"
        /\ Requests(t)[2].exc = None
        /\ Res(t).content = "b"
        /\ max_retries >= 2

\* C3: a call in which every provider request raises a generic API error
\* sleeps 2^attempt seconds and retries while attempts remain, issues
\* max_retries+1 requests in total and returns a failure with error_type
\* API_ERROR.
C3_ApiErrorRetried ==
    \A t \in Threads :
        (Completed(t) /\ AllRaised(t, "APIError")) =>
            /\ Len(Requests(t)) = max_retries + 1
            /\ Sleeps(t) = [i \in 1..max_retries |-> Pow2(i - 1)]
            /\ ~Res(t).success
            /\ Res(t).error_type = API_ERROR

\* C4: an outcome has success = TRUE only if the last provider request of
\* the call returned a response, whose non-empty text is the content; a
\* call in which every request raised is never reported successful, and
\* health_check returns False for it.
C4_SuccessOnlyFromResponse ==
    \A t \in Threads :
        Completed(t) =>
            /\ Res(t).success =>
                  /\ Requests(t) # <<>>
                  /\ Last(Requests(t)).exc = None
                  /\ Res(t).content = Last(Requests(t)).content
                  /\ Res(t).content # ""
            /\ (\A i \in 1..Len(Requests(t)) : Requests(t)[i].exc # None) =>
                  /\ ~Res(t).success
                  /\ health[t] # <<>> => health[t] = <<FALSE>>

\* The error types of the errors that are not retried
NonRetryable ==
    [InvalidRequestError |-> INVALID_REQUEST,
     AuthenticationError |-> AUTHENTICATION,
     PermissionError |-> QUOTA_EXCEEDED]

\* C5: an invalid-request, authentication or permission error ends the call
\* at the attempt where it occurs: no request and no sleep follows it and
\* the outcome is a failure of the matching kind; on the first attempt the
\* call made exactly one request and attempt_count = 1, for every
\* max_retries.
C5_NonRetryableEndsCall ==
    \A t \in Threads :
        \A i \in 1..Len(trace[t]) :
            (IsRequest(trace[t][i]) /\ trace[t][i].exc \in DOMAIN NonRetryable) =>
                /\ i = Len(trace[t])
                /\ pc[t] \notin {"request", "sleep"}
                /\ Completed(t) =>
                      /\ ~Res(t).success
                      /\ Res(t).content = ""
                      /\ Res(t).error_type = NonRetryable[trace[t][i].exc]
                /\ (Completed(t) /\ i = 1) =>
                      /\ Len(Requests(t)) = 1
                      /\ Res(t).attempt_count = 1

C5_Witness ==
    \E t \in Threads :
        /\ Completed(t)
        /\ trace[t] = <<ReqEvent("AuthenticationError", NoResponse)>>
        /\ max_retries >= 3

\* C6: when every request is rate-limited the backoff sleeps are exactly
\* min(2^i, 60) for i = 0..max_retries-1 in that order, one after each
\* failed attempt that has a successor and none after the final attempt.
C6_BackoffSchedule ==
    \A t \in Threads :
        (Completed(t) /\ AllRaised(t, "RateLimitError")) =>
            /\ Sleeps(t) = [i \in 1..max_retries |-> Min(Pow2(i - 1), 60)]
            /\ Alternates(t)
            /\ Len(trace[t]) = 2 * max_retries + 1

C6_Witness ==
    \E t \in Threads :
        /\ Completed(t)
        /\ AllRaised(t, "RateLimitError")
        /\ max_retries >= 7
        /\ Sleeps(t)[6] = 32
        /\ Sleeps(t)[7] = 60

\* The values an AIResponse can hold
AIResponseValues ==
    [content : {"", "a", "b", "c"}, success : BOOLEAN,
     error_type : ErrorType \cup {None},
     error_message : STRING, tokens_used : Nat, response_time : Nat,
     attempt_count : Nat]

\* C7: generate_response never lets an exception escape: whatever the
\* provider returns or raises, and also when building the messages raises,
\* the call goes on to return an AIResponse, and a failure has empty
\* content and an error_type of the ErrorType enumeration.
C7_NoExceptionEscapes ==
    \A t \in Threads :
        /\ pc[t] # "raised"
        /\ pc[t] # "idle" => ENABLED Step(t)
        /\ Completed(t) =>
              /\ Res(t) \in AIResponseValues
              /\ ~Res(t).success =>
                    /\ Res(t).content = ""
                    /\ Res(t).error_type \in ErrorType

C7_Witness ==
    \E t \in Threads :
        /\ Completed(t)
        /\ trace[t] = <<>>
        /\ ~Res(t).success
        /\ Res(t).error_type = UNKNOWN

Quiescent == \A t \in Threads : pc[t] = "idle"

\* C8: after sequentially completed generate_response and reset_statistics
\* calls total_requests = successful_requests + failed_requests, and each
\* call adds exactly 1 to total_requests and exactly 1 to the one of
\* successful_requests and failed_requests that matches its outcome.
C8_CountersAddUp ==
    /\ Quiescent => total_requests = successful_requests + failed_requests
    /\ \A t \in Threads :
          (Completed(t) /\ before[t] # <<>>) =>
              LET b == before[t][1]
              IN /\ total_requests = b.total_requests + 1
                 /\ IF Res(t).success
                    THEN /\ successful_requests = b.successful_requests + 1
                         /\ failed_requests = b.failed_requests
                    ELSE /\ failed_requests = b.failed_requests + 1
                         /\ successful_requests = b.successful_requests

C8_Witness ==
    /\ Quiescent
    /\ calls[1] = 0
    /\ total_requests = 2
    /\ successful_requests = 1
    /\ failed_requests = 1
    /\ Completed(1) /\ before[1] # <<>> /\ trace[1] = <<>>

RECURSIVE SumFn(_)
SumFn(f) ==
    IF DOMAIN f = {} THEN 0
    ELSE LET x == CHOOSE y \in DOMAIN f : TRUE
         IN f[x] + SumFn([y \in DOMAIN f \ {x} |-> f[y]])

\* Sum of tokens_used over the successful outcomes since the last reset
TokensOfSuccesses ==
    SumFn([o \in BagToSet(outcomes) |->
              IF o.success THEN o.tokens_used * CopiesIn(o, outcomes) ELSE 0])

Succ(n) == [success |-> TRUE, tokens_used |-> n]

Fail == [success |-> FALSE, tokens_used |-> 0]

\* 3 successes of 10, 20 and 30 tokens and 1 failure
ExampleOutcomes == SetToBag({Succ(10), Succ(20), Succ(30), Fail})

ExampleStatistics ==
    /\ get_statistics.total_requests = 4
    /\ get_statistics.successful_requests = 3
    /\ get_statistics.failed_requests = 1
    /\ get_statistics.total_tokens_used = 60
    /\ get_statistics.success_rate_percent = 7500

\* C9 as stated: total_tokens_used is the sum of tokens_used over the
\* successful outcomes since the last reset and success_rate_percent equals
\* 100 * successful_requests / total_requests (0 when total_requests is 0);
\* 3 successes of 10, 20, 30 tokens and 1 failure give 4, 3, 1, 60, 75.0.
C9_ExactSuccessRate ==
    Quiescent =>
        /\ get_statistics.total_tokens_used = TokensOfSuccesses
        /\ IF get_statistics.total_requests = 0
           THEN get_statistics.success_rate_percent = 0
           ELSE get_statistics.success_rate_percent * get_statistics.total_requests
                    = 100 * 100 * get_statistics.successful_requests
        /\ outcomes = ExampleOutcomes => ExampleStatistics

Abs(x) == IF x < 0 THEN -x ELSE x

\* C9 as amended: total_tokens_used is the sum of tokens_used over the
\* successful outcomes since the last reset and success_rate_percent is
\* 100 * successful_requests / total_requests rounded to two decimals, that
\* is within half a hundredth of it (0 when total_requests is 0); 3
\* successes of 10, 20, 30 tokens and 1 failure give 4, 3, 1, 60, 75.0.
C9_RoundedSuccessRate ==
    Quiescent =>
        /\ get_statistics.total_tokens_used = TokensOfSuccesses
        /\ get_statistics.total_requests = BagCardinality(outcomes)
        /\ IF get_statistics.total_requests = 0
           THEN get_statistics.success_rate_percent = 0
           ELSE 2 * Abs(get_statistics.success_rate_percent * get_statistics.total_requests
                          - 100 * 100 * get_statistics.successful_requests)
                    <= get_statistics.total_requests
        /\ outcomes = ExampleOutcomes => ExampleStatistics

C9_Witness == Quiescent /\ outcomes = ExampleOutcomes

\* C10: when N threads each run one generate_response call on one client
\* and every provider request succeeds, then after all threads finish
\* total_requests = N and successful_requests = N.
C10_NoLostUpdate ==
    (\A t \in Threads : Completed(t) /\ calls[t] = 0 /\ Res(t).success) =>
        /\ total_requests = Cardinality(Threads)
        /\ successful_requests = Cardinality(Threads)

----------------------------------------------------------------------------
(* Reading the store *)

Range(s) == {s[i] : i \in 1..Len(s)}

Occurrences(s, x) == Cardinality({i \in 1..Len(s) : s[i] = x})

\* A thread has returned from the operation named name
Returns(t, name) ==
    op[t].name = name /\ spc[t] = "idle" /\ sret[t] # NoneValue

Ret(t) == sret[t][1]

\* The sequence of exchanges the conversation file holds
OnDisk == IF file.kind = "list" THEN LoadAll(file.items, now) ELSE <<>>

\* The positions inside _save_conversations
SavePcs == {"save_open", "save_write", "save_replace", "save_except"}

----------------------------------------------------------------------------
(* The chat turn of the assistant: _process_chat_message *)

\* The user's message, stripped and not empty
ChatInput == <<"a">>

\* The content of a response as a string of the store
Chars(content) == IF content = "" THEN <<>> ELSE <<content>>

\* The keyword arguments _process_chat_message gives add_exchange; the
\* error_type of a response that reports success is None
ChatDetails(resp) ==
    [tokens_used |-> resp.tokens_used, model_used |-> <<"m">>,
     response_time |-> resp.response_time,
     metadata |-> Some(<<Item("attempt_count", Some(resp.attempt_count)),
                         Item("error_type", NoneValue)>>)]

\* context = self.conversation_manager.get_recent_context()
ChatStart(t) ==
    /\ cpc[t] = "idle"
    /\ turns_left[t] > 0
    /\ pc[t] = "idle"
    /\ turns_left' = Set(turns_left, t, turns_left[t] - 1)
    /\ cpc' = Set(cpc, t, "context")
    /\ get_recent_context(t, NoneValue)
    /\ UNCHANGED <<clientVars, labVars, msgVars>>

\* ai_response = self.ai_client.generate_response(user_message, context)
ChatGenerate(t) ==
    /\ cpc[t] = "context"
    /\ Returns(t, "get_recent_context")
    /\ generate_response(t)
    /\ cpc' = Set(cpc, t, "generate")
    /\ UNCHANGED <<storeVars, turns_left, labVars, msgVars>>

\* "if ai_response.success:" add_exchange and the content are returned,
\* otherwise the text of the error
ChatRecord(t) ==
    /\ cpc[t] = "generate"
    /\ Completed(t)
    /\ IF Res(t).success
       THEN /\ add_exchange(t, ChatInput, Chars(Res(t).content),
                            ChatDetails(Res(t)))
            /\ cpc' = Set(cpc, t, "record")
       ELSE /\ cpc' = Set(cpc, t, "idle")
            /\ UNCHANGED storeVars
    /\ UNCHANGED <<clientVars, turns_left, labVars, msgVars>>

\* add_exchange has returned, and with it the turn
ChatReturn(t) ==
    /\ cpc[t] = "record"
    /\ spc[t] = "idle"
    /\ cpc' = Set(cpc, t, "idle")
    /\ UNCHANGED <<clientVars, storeVars, turns_left, labVars, msgVars>>

\* The steps inside generate_response
ClientInside(t) ==
    \/ StoreTotal(t)
    \/ BuildMessages(t)
    \/ BuildMessagesRaises(t)
    \/ RequestReturns(t)
    \/ RequestRaises(t)
    \/ Sleep(t)
    \/ AccountLoad(t)
    \/ AccountStore(t)
    \/ TokensLoad(t)
    \/ TokensStore(t)
    \/ TimeLoad(t)
    \/ TimeStore(t)
    \/ ExceptLoad(t)
    \/ ExceptStore(t)
    \/ Return(t)

NextChat ==
    \/ \E t \in StoreThreads : ChatStart(t)
    \/ \E t \in StoreThreads : ChatGenerate(t)
    \/ \E t \in StoreThreads : ChatRecord(t)
    \/ \E t \in StoreThreads : ChatReturn(t)
    \/ (\E t \in StoreThreads : InsideAdd(t) \/ CtxRead(t))
       /\ UNCHANGED <<clientVars, chatVars, labVars, msgVars>>
    \/ (\E t \in Threads : ClientInside(t))
       /\ UNCHANGED <<storeVars, chatVars, labVars, msgVars>>

\* One thread that takes chat turns on a new conversation file
InitChat ==
    /\ InitClient({1}, 0..MaxRetries, MaxTurns)
    /\ InitStore({1}, {Absent}, 2 * MaxTurns, FALSE, BOOLEAN, {TRUE},
                 {MaxContext})
    /\ cpc = [t \in {1} |-> "idle"]
    /\ turns_left = [t \in {1} |-> MaxTurns]
    /\ LabUnused
    /\ MsgUnused

SpecChat == InitChat /\ [][NextChat]_vars

\* The turn of thread t is over
TurnOver(t) == cpc[t] = "idle" /\ Completed(t)

----------------------------------------------------------------------------
(* C19 *)

\* C19: when a chat turn is over, the store holds one exchange more than
\* when the turn began if the outcome of generate_response is a success;
\* if it is a failure add_exchange was not called and memory and the
\* conversation file are as they were
C19_GrowsIffSuccess ==
    \A t \in StoreThreads :
        TurnOver(t) =>
            IF Res(t).success
            THEN /\ op[t].name = "add_exchange"
                 /\ Len(conversations) = Len(pre[t].conversations) + 1
            ELSE /\ op[t].name = "get_recent_context"
                 /\ Snapshot = pre[t]

----------------------------------------------------------------------------
(* C11 *)

\* C11: when every concurrent add_exchange call (non-empty texts, auto_save
\* on) has returned, memory holds every submitted exchange exactly once and
\* the conversation file holds exactly the sequence in memory, with no
\* temporary file left
C11_NoLostExchange ==
    (submitted # {} /\ \A t \in StoreThreads : spc[t] = "idle") =>
        /\ \A e \in submitted : Occurrences(conversations, e) = 1
        /\ file = ListFile(DumpAll(conversations))
        /\ tmp = Absent

C11_Witness ==
    /\ \A t \in StoreThreads : spc[t] = "idle" /\ ops_left[t] = 0
    /\ Cardinality(submitted) = NThreads
    /\ Len(conversations) > Cardinality(submitted)
    /\ file = ListFile(DumpAll(conversations))

----------------------------------------------------------------------------
(* C12 *)

\* C12: in every reachable state every exchange of the sequence on disk is
\* in memory
C12_DiskWithinMemory == Range(OnDisk) \subseteq Range(conversations)

\* C12, amended: every exchange of the sequence on disk is in memory unless
\* clear_history or optimize_storage has removed exchanges from memory and
\* no save has succeeded since
C12_DiskWithinMemoryUnlessRemoved ==
    ~unsaved_removal => Range(OnDisk) \subseteq Range(conversations)

\* An add_exchange whose save failed: the file keeps the shorter sequence
C12_Witness ==
    /\ Returns(1, "add_exchange")
    /\ ~op[1].blank
    /\ auto_save
    /\ ~unsaved_removal
    /\ OnDisk # <<>>
    /\ file = pre[1].file
    /\ Len(conversations) > Len(OnDisk)

----------------------------------------------------------------------------
(* C13 *)

\* C13: at every step of a save, failing or not, the conversation file is
\* whole and is either the file as the save found it or the sequence in
\* memory, written out in full; when the save is over it is one of the two
C13_NeverHalfWritten ==
    /\ file.kind # "partial"
    /\ \A t \in StoreThreads :
           /\ spc[t] \in SavePcs => file = loc[t].old_file
           /\ (spc[t] \in UnlockPcs /\ loc[t].cont = spc[t]) =>
                  file \in {loc[t].old_file, ListFile(DumpAll(conversations))}

\* A save that failed after it had begun to write
C13_Witness ==
    /\ spc[1] = "save_except"
    /\ tmp.kind = "partial"
    /\ file.kind = "list"
    /\ file.items # <<>>
    /\ file.items # DumpAll(conversations)

----------------------------------------------------------------------------
(* C14 *)

\* C14: an add_exchange whose user text or assistant text is empty or all
\* whitespace returns at once, and memory, the conversation file, the
\* temporary file and the backups are as they were
C14_BlankIsNoOp ==
    \A t \in StoreThreads :
        (op[t].name = "add_exchange" /\ op[t].blank) =>
            /\ spc[t] = "idle"
            /\ sret[t] # NoneValue
            /\ Snapshot = pre[t]

C14_Witness ==
    /\ Returns(1, "add_exchange")
    /\ op[1].blank
    /\ auto_save
    /\ conversations # <<>>

----------------------------------------------------------------------------
(* C15 *)

\* C15: optimize_storage(max_exchanges=k) on N > 0 exchanges with k < N
\* leaves exactly k exchanges, the last k in their order, and returns N - k
C15_KeepsLastK ==
    \A t \in StoreThreads :
        (/\ Returns(t, "optimize_storage")
         /\ op[t].k # NoneValue
         /\ Len(pre[t].conversations) > 0
         /\ op[t].k[1] < Len(pre[t].conversations)) =>
            LET N == Len(pre[t].conversations)
                k == op[t].k[1]
            IN /\ Len(conversations) = k
               /\ Ret(t).count = N - k
               /\ conversations = SubSeq(pre[t].conversations, N - k + 1, N)

----------------------------------------------------------------------------
(* C16 *)

\* C16: a construction on a file that is not valid JSON returns, leaves
\* memory empty and, with backup_on_corruption set, creates exactly one new
\* backup, which holds the content of the file
C16_CorruptedFileRecovered ==
    \A t \in StoreThreads :
        (op[t].name = "construct" /\ pre[t].file.kind = "garbage") =>
            /\ spc[t] = "idle"
            /\ conversations = <<>>
            /\ file = pre[t].file
            /\ backup_on_corruption =>
                   /\ Cardinality(backups \ pre[t].backups) = 1
                   /\ \A b \in backups \ pre[t].backups :
                          /\ b.content = pre[t].file
                          /\ b.reason = "corrupted_json_decode_error"

\* A second construction on the file, after exchanges were added in memory
C16_Witness ==
    /\ op[1].name = "construct"
    /\ pre[1].file.kind = "garbage"
    /\ pre[1].conversations # <<>>
    /\ backup_on_corruption
    /\ Cardinality(backups) = 2

----------------------------------------------------------------------------
(* C17 *)

\* C17: with backup_on_corruption not set, a construction on a file that
\* fails to parse or whose top level is not a list creates no backup and
\* leaves memory empty
C17_NoBackupWithoutFlag ==
    \A t \in StoreThreads :
        (/\ op[t].name = "construct"
         /\ ~backup_on_corruption
         /\ pre[t].file.kind \in {"garbage", "notlist"}) =>
            /\ backups = pre[t].backups
            /\ conversations = <<>>

----------------------------------------------------------------------------
(* C18 *)

\* The file holds the sequence in memory, as a save writes it
SavedAsIs(s) == s.file = ListFile(DumpAll(s.conversations))

\* A construction on a file that holds what a save of the sequence s wrote
\* loads s: the same exchanges, in order, field by field
LoadsWhatWasSaved ==
    \A t \in StoreThreads :
        (op[t].name = "construct" /\ SavedAsIs(pre[t])) =>
            conversations = pre[t].conversations

\* C18: a construction on a file written by a save loads the saved
\* sequence, and a JSON export of the sequence thus loaded writes the
\* records of the file, in order
C18_RoundTrip ==
    /\ LoadsWhatWasSaved
    /\ \A t \in StoreThreads :
           (/\ Returns(t, "export_conversations")
            /\ op[t].fmt = "json"
            /\ SavedAsIs(pre[t])) =>
               /\ Ret(t).ok
               /\ Ret(t).written = pre[t].file

\* C18, amended: as C18 for a sequence that is not empty; the export of an
\* empty sequence returns False and writes nothing
C18_RoundTripNonEmpty ==
    /\ LoadsWhatWasSaved
    /\ \A t \in StoreThreads :
           (/\ Returns(t, "export_conversations")
            /\ op[t].fmt = "json"
            /\ SavedAsIs(pre[t])) =>
               IF pre[t].conversations # <<>>
               THEN Ret(t).ok /\ Ret(t).written = pre[t].file
               ELSE ~Ret(t).ok /\ Ret(t).written = Absent

\* An export of two exchanges, one of them with metadata, that the file
\* holds as a save wrote them
C18_Witness ==
    /\ Returns(1, "export_conversations")
    /\ op[1].fmt = "json"
    /\ SavedAsIs(pre[1])
    /\ Len(conversations) = 2
    /\ \E i \in 1..2 : conversations[i].metadata # NoneValue
    /\ Ret(1).written = file

----------------------------------------------------------------------------
(* C20 *)

\* The positions whose step reads or writes self._conversations
AccessPcs == {"add_append", "ctx_read", "clear_check", "clear_do",
              "opt_check", "opt_trim", "exp_copy", "save_write", "srch_read",
              "oai_read", "flt_read", "stat_read"}

\* C20: a thread about to read or write the sequence in memory holds the
\* store lock
C20_AccessUnderLock ==
    \A t \in StoreThreads : spc[t] \in AccessPcs => lock = t

----------------------------------------------------------------------------
(* C21 *)

\* C21: while a thread is inside generate_response, from the call until the
\* chat turn has read the outcome, it does not hold the store lock and has
\* no store operation under way
C21_NoLockAcrossProviderCall ==
    \A t \in StoreThreads :
        (pc[t] # "idle" \/ cpc[t] = "generate") =>
            lock # t /\ spc[t] = "idle"

\* A turn that waits in a backoff sleep after its context was read from a
\* store that holds an exchange
C21_Witness ==
    /\ cpc[1] = "generate"
    /\ pc[1] = "sleep"
    /\ Returns(1, "get_recent_context")
    /\ Ret(1).items # <<>>
    /\ lock = NoThread

----------------------------------------------------------------------------
(* C22 *)

\* C22: get_recent_context(max_exchanges=n) returns the last min(N, size)
\* exchanges in their order, N being n when n is given and
\* max_history_context otherwise, returns the empty list when N <= 0, and
\* leaves memory and the conversation file as they were
C22_LastNExchanges ==
    \A t \in StoreThreads :
        Returns(t, "get_recent_context") =>
            LET N == IF op[t].k = NoneValue
                     THEN max_history_context
                     ELSE op[t].k[1]
                before_call == pre[t].conversations
                size == Len(before_call)
                n == Min(N, size)
            IN /\ Ret(t).items =
                      IF N <= 0 THEN <<>>
                      ELSE [i \in 1..n |->
                               ContextRecord(before_call[size - n + i])]
               /\ conversations = before_call
               /\ file = pre[t].file

----------------------------------------------------------------------------
(* C23 *)

\* The text compared: as it is when case_sensitive, in lower case otherwise
Folded(s, a) == IF a.case_sensitive THEN s ELSE lower(s)

\* One of the selected fields of e contains the query
Hit(e, a) ==
    \/ a.search_user /\ Contains(Folded(e.user, a), Folded(a.query, a))
    \/ a.search_assistant
           /\ Contains(Folded(e.assistant, a), Folded(a.query, a))

\* The exchanges of cs that are hits, in their order
Hits(cs, a) == LET Test(e) == Hit(e, a) IN SelectSeq(cs, Test)

\* C23: search_conversations returns, in insertion order, the exchanges one
\* of whose selected fields contains the query, case folded unless
\* case_sensitive, cut to the first `limit` of them when a limit is given;
\* a query that is empty or all whitespace returns the empty list
C23_SearchResult ==
    \A t \in StoreThreads :
        Returns(t, "search_conversations") =>
            LET a == loc[t].search
                hits == Hits(pre[t].conversations, a)
            IN Ret(t).items =
                   IF IsBlank(a.query) THEN <<>>
                   ELSE IF a.limit = NoneValue THEN hits
                   ELSE SubSeq(hits, 1, Min(a.limit[1], Len(hits)))

----------------------------------------------------------------------------
(* C24 *)

\* C24: export_conversations on a non-empty store with an unsupported format
\* ends with a ValueError reaching the caller, and with nothing to export it
\* returns False, raises nothing and writes no file
C24_UnsupportedFormatRaises ==
    \A t \in StoreThreads :
        Returns(t, "export_conversations") =>
            /\ (loc[t].copy # <<>> /\ op[t].fmt \notin {"json"}) =>
                   Ret(t).raised = "ValueError"
            /\ loc[t].copy = <<>> =>
                   /\ Ret(t).ok = FALSE
                   /\ Ret(t).raised = None
                   /\ Ret(t).written = Absent

----------------------------------------------------------------------------
(* C25 *)

\* C25: clear_history raises nothing, and it returns True exactly when the
\* sequence in memory was emptied and, with auto_save on, the emptied
\* sequence is what the file holds; otherwise it returns False
C25_ClearReportsOutcome ==
    \A t \in StoreThreads :
        Returns(t, "clear_history") =>
            /\ Ret(t).raised = None
            /\ Ret(t).ok <=>
                   /\ conversations = <<>>
                   /\ auto_save => file = ListFile(<<>>)

----------------------------------------------------------------------------
(* C26 *)

\* A call of the starter-code client has returned
LabDone == lpc = "idle" /\ lab_result # NoneValue

\* The requests of the call, in order
LabRequests == LET Asked(e) == e.kind = "request"
               IN SelectSeq(lab_trace, Asked)

\* The sleeps of the call, in order
LabSleeps == LET Slept(e) == e.kind = "sleep"
             IN SelectSeq(lab_trace, Slept)

\* C26: a call of the starter-code client every attempt of which the provider
\* answered with RATE_LIMITED returns a failed response of status RATE_LIMITED
C26_RateLimitedReported ==
    (/\ LabDone
     /\ LabRequests # <<>>
     /\ \A i \in DOMAIN LabRequests : LabRequests[i].how = RATE_LIMITED)
        => /\ ~success(lab_result[1])
           /\ lab_result[1].status = RATE_LIMITED

----------------------------------------------------------------------------
(* C27 *)

\* A request that ended with a failure response other than a rate limit
FailedOver(e) == e.how \in ResponseStatus \ {SUCCESS, RATE_LIMITED}

\* C27: with two providers and max_retries >= 2, a failure response that is
\* not a rate limit advances current_provider_index to the next provider
\* round-robin, the next attempt of the same call (there is one whenever an
\* attempt remains, as after the first) asks that provider, and a call that
\* then succeeds returns that provider's response and leaves
\* current_provider_index at it
C27_FallbackProvider ==
    (Len(providers) = 2 /\ lab_max_retries >= 2) =>
        LET R == LabRequests
        IN /\ \A i \in DOMAIN R :
                  FailedOver(R[i]) =>
                      /\ i = Len(R) /\ lpc # "request" =>
                             current_provider_index = (R[i].provider + 1) % 2
                      /\ i < Len(R) =>
                             /\ R[i + 1].provider = (R[i].provider + 1) % 2
                             /\ R[i + 1].attempt = R[i].attempt + 1
                      /\ (LabDone /\ R[i].attempt + 1 < lab_max_retries) =>
                             i < Len(R)
           /\ (LabDone /\ success(lab_result[1])) =>
                  /\ R # <<>>
                  /\ lab_result[1] = ProviderReply(R[Len(R)].provider, SUCCESS)
                  /\ current_provider_index = R[Len(R)].provider
                  /\ (Len(R) > 1 /\ FailedOver(R[Len(R) - 1])
                          /\ R[Len(R) - 1].provider = 0) =>
                         /\ current_provider_index = 1
                         /\ lab_result[1].provider = "fallback"

\* The primary provider failed, the fallback answered, and the call returned
C27_Witness ==
    /\ Len(providers) = 2
    /\ lab_max_retries >= 2
    /\ LabDone
    /\ Len(LabRequests) = 2
    /\ LabRequests[1].provider = 0
    /\ LabRequests[1].how = PROVIDER_ERROR
    /\ LabRequests[2].provider = 1
    /\ LabRequests[2].how = SUCCESS
    /\ success(lab_result[1])
    /\ lab_result[1].provider = "fallback"
    /\ current_provider_index = 1

----------------------------------------------------------------------------
(* C28 *)

\* C28: a generate_response call that returns a failure adds 1 to
\* total_requests and to failed_requests and leaves successful_requests,
\* total_tokens_used and total_response_time as they were before the call
C28_FailureFrame ==
    \A t \in Threads :
        (Completed(t) /\ before[t] # <<>> /\ ~Res(t).success) =>
            LET b == before[t][1]
            IN /\ total_requests = b.total_requests + 1
               /\ failed_requests = b.failed_requests + 1
               /\ successful_requests = b.successful_requests
               /\ total_tokens_used = b.total_tokens_used
               /\ total_response_time = b.total_response_time

----------------------------------------------------------------------------
(* C29 *)

\* C29: every generate_response call returns an outcome, given that each
\* provider request returns or raises, after at most max_retries + 1
\* provider requests and at most max_retries sleeps
C29_Terminates ==
    /\ [](/\ Len(Requests(1)) <= max_retries + 1
          /\ Len(Sleeps(1)) <= max_retries)
    /\ (pc[1] # "idle") ~> Completed(1)

\* A call that used every request and every sleep has returned
C29_Witness ==
    /\ max_retries >= 2
    /\ Completed(1)
    /\ Len(Requests(1)) = max_retries + 1
    /\ Len(Sleeps(1)) = max_retries

----------------------------------------------------------------------------
(* C30 *)

\* C30: optimize_storage returns the size of the store before the call minus
\* its size after it, which is 0 when the size does not exceed the threshold
\* (max_exchanges if given, else 10 x max_history_context, 0 included), and
\* after a trim the store holds the last `threshold` exchanges in their order
C30_RemovedCount ==
    \A t \in StoreThreads :
        Returns(t, "optimize_storage") =>
            LET threshold == IF op[t].k = NoneValue
                             THEN DefaultFactor * max_history_context
                             ELSE op[t].k[1]
                was == pre[t].conversations
                N == Len(was)
            IN /\ Ret(t).count = N - Len(conversations)
               /\ N <= threshold =>
                      Ret(t).count = 0 /\ conversations = was
               /\ N > threshold =>
                      conversations = SubSeq(was, N - threshold + 1, N)

----------------------------------------------------------------------------
(* C31 *)

\* s is what remains of r after dropping exchanges from its front
IsSuffix(s, r) ==
    \E k \in 0..Len(r) : s = SubSeq(r, k + 1, Len(r))

\* A text as add_exchange stores it: not empty, no whitespace at its ends
Trimmed(text) ==
    /\ text # <<>>
    /\ text[1] \notin Whitespace
    /\ text[Len(text)] \notin Whitespace

\* The step is the step of thread t at position p
StepAt(t, p) == spc[t] = p /\ spc'[t] # p

\* The step is the construction of a manager on the file
Constructs ==
    \E t \in StoreThreads :
        ops_left'[t] # ops_left[t] /\ op'[t].name = "construct"

\* C31: a step of a store operation leaves the sequence as it is, or it is
\* the append of an accepted add_exchange and the old sequence is a strict
\* prefix of the new one, whose last exchange is the new one with trimmed
\* texts, or it is the removal of clear_history or optimize_storage and the
\* new sequence is a suffix of the old one
C31_AppendOnly ==
    [][~Constructs =>
          \/ conversations' = conversations
          \/ /\ \E t \in StoreThreads : StepAt(t, "add_append")
             /\ Len(conversations') = Len(conversations) + 1
             /\ SubSeq(conversations', 1, Len(conversations)) = conversations
             /\ conversations'[Len(conversations')] \in submitted
             /\ Trimmed(conversations'[Len(conversations')].user)
             /\ Trimmed(conversations'[Len(conversations')].assistant)
          \/ /\ \E t \in StoreThreads :
                    StepAt(t, "clear_do") \/ StepAt(t, "opt_trim")
             /\ IsSuffix(conversations', conversations)]_vars

\* An accepted add_exchange on a store that held exchanges has returned
C31_Witness ==
    /\ Returns(1, "add_exchange")
    /\ ~op[1].blank
    /\ pre[1].conversations # <<>>
    /\ Len(conversations) = Len(pre[1].conversations) + 1
    /\ SubSeq(conversations, 1, Len(pre[1].conversations))
           = pre[1].conversations

----------------------------------------------------------------------------
(* C32 *)

ReadOperations ==
    {"get_recent_context", "get_openai_context", "search_conversations",
     "filter_by_date", "get_statistics", "export_conversations"}

\* C32: when a read operation returns, the sequence in memory and the
\* conversation file are as they were when it was called
C32_ReadsChangeNothing ==
    \A t \in StoreThreads :
        (\E name \in ReadOperations : Returns(t, name)) =>
            /\ conversations = pre[t].conversations
            /\ file = pre[t].file

----------------------------------------------------------------------------
(* C33 *)

MutatingOperations == {"add_exchange", "clear_history", "optimize_storage"}

\* The call of thread t got past the early return of its operation: the
\* texts of add_exchange are not blank, the store of optimize_storage held
\* more exchanges than the threshold
PastEarlyReturn(t) ==
    CASE op[t].name = "add_exchange" -> ~op[t].blank
      [] op[t].name = "optimize_storage" ->
             Len(pre[t].conversations) >
                 (IF op[t].k = NoneValue \/ op[t].k[1] = 0
                  THEN max_history_context * DefaultFactor
                  ELSE op[t].k[1])
      [] OTHER -> TRUE

\* C33: when add_exchange, clear_history or optimize_storage returns and no
\* I/O has failed, the conversation file holds exactly the sequence in memory
\* if auto_save is on, and is as the call found it if auto_save is off
C33_SavedOnReturn ==
    \A t \in StoreThreads :
        (\E name \in MutatingOperations : Returns(t, name)) =>
            IF auto_save
            THEN file = ListFile(DumpAll(conversations))
            ELSE file = pre[t].file

\* C33, amended: the file holds exactly the sequence in memory when auto_save
\* is on and the call got past its early return; in every other case (auto_save
\* off, blank texts, a store within the threshold) the file is as the call
\* found it
C33_SavedOnReturnUnlessEarly ==
    \A t \in StoreThreads :
        (\E name \in MutatingOperations : Returns(t, name)) =>
            IF auto_save /\ PastEarlyReturn(t)
            THEN file = ListFile(DumpAll(conversations)) /\ tmp = Absent
            ELSE file = pre[t].file

\* A trim with auto_save on: the file has been rewritten with what is left
C33_Witness ==
    /\ Returns(1, "optimize_storage")
    /\ auto_save
    /\ conversations # <<>>
    /\ Len(conversations) < Len(pre[1].conversations)
    /\ file # pre[1].file
    /\ file = ListFile(DumpAll(conversations))

----------------------------------------------------------------------------
(* C34 *)

----------------------------------------------------------------------------
(* C35 *)

\* The user and assistant messages of the exchanges of a history, in order
RECURSIVE Pairs(_)
Pairs(hist) ==
    IF hist = <<>> THEN <<>>
    ELSE <<Message("user", <<"user", Head(hist).n>>),
           Message("assistant", <<"assistant", Head(hist).n>>)>>
             \o Pairs(Tail(hist))

\* The list is the system message (prompt), the pairs of the last j entries
\* of the history for some j up to limit, and the current user message
BuiltFrom(prompt, limit) ==
    \E j \in 0..Min(Len(history), limit) :
        messages[1] = <<Message("system", prompt)>>
                          \o Pairs(SubSeq(history, Len(history) - j + 1,
                                          Len(history)))
                          \o <<Message("user", CurrentMessage)>>

\* C35: the message list built from a history of user/assistant exchanges is
\* the system message (the override if one is given, else the configured
\* prompt), then the pairs of a trailing slice of at most max_tokens // 100
\* entries of the history in order, then the current user message
C35_MessageList ==
    (/\ messages # NoneValue
     /\ \A i \in DOMAIN history : history[i].kind = "pair") =>
        BuiltFrom(IF custom_system_prompt \in {NoneValue, Some(EmptyPrompt)}
                  THEN system_prompt
                  ELSE custom_system_prompt[1],
                  max_tokens \div 100)

----------------------------------------------------------------------------
(* C36 *)

\* C36: a call of the starter-code client never makes more than max_retries
\* attempts, whatever the number of providers, and a call every attempt of
\* which ended with a failure response that is not a rate limit has made
\* exactly max_retries requests, each to the provider after the one before
\* it round-robin, and returns the response of the last of them
C36_AttemptsInTotal ==
    LET R == LabRequests
    IN /\ Len(R) <= lab_max_retries
       /\ (LabDone /\ R # <<>> /\ \A i \in DOMAIN R : FailedOver(R[i])) =>
              /\ Len(R) = lab_max_retries
              /\ \A i \in 1..(Len(R) - 1) :
                     R[i + 1].provider = (R[i].provider + 1) % Len(providers)
              /\ lab_result[1] = ProviderReply(R[Len(R)].provider, R[Len(R)].how)

\* Three failures in a row on two providers: primary, fallback, primary
C36_Witness ==
    /\ LabDone
    /\ Len(providers) = 2
    /\ lab_max_retries = 3
    /\ Len(LabRequests) = 3
    /\ \A i \in 1..3 : FailedOver(LabRequests[i])
    /\ LabRequests[1].provider = 0
    /\ lab_result[1].provider = "primary"
    /\ lab_result[1].status = TIMEOUT

----------------------------------------------------------------------------
(* C37 *)

\* C37: the attempt_count of the outcome a generate_response call returns is
\* the number of provider requests the call issued
C37_AttemptCountIsRequests ==
    \A t \in Threads :
        Completed(t) => Res(t).attempt_count = Len(Requests(t))

----------------------------------------------------------------------------
(* C38 *)

\* In the finished call of thread t of the solution client every sleep is
\* followed by a provider request
SleepsThenRequests(t) ==
    \A i \in DOMAIN trace[t] :
        IsSleep(trace[t][i]) =>
            i < Len(trace[t]) /\ IsRequest(trace[t][i + 1])

\* The same for the finished call of the starter-code client
LabSleepsThenRequests ==
    \A i \in DOMAIN lab_trace :
        lab_trace[i].kind = "sleep" =>
            i < Len(lab_trace) /\ lab_trace[i + 1].kind = "request"

\* C38: when a generate_response call of either client has returned, every
\* backoff sleep of the call was followed by another provider request of the
\* call
C38_NoSleepThenReturn ==
    /\ \A t \in Threads : Completed(t) => SleepsThenRequests(t)
    /\ LabDone => LabSleepsThenRequests

----------------------------------------------------------------------------
(* C39 *)

\* The exchanges a backup file holds
BackedUp(b) ==
    IF b.content.kind = "list"
    THEN Range(LoadAll(b.content.items, now))
    ELSE {}

\* C39: when clear_history(create_backup=True) or optimize_storage returns
\* after removing exchanges from memory, a backup file made by that call
\* holds every exchange it removed
C39_RemovedIsBackedUp ==
    \A t \in StoreThreads :
        LET removed == Range(pre[t].conversations) \ Range(conversations)
        IN (/\ \/ Returns(t, "clear_history") /\ op[t].backup
               \/ Returns(t, "optimize_storage")
            /\ removed # {}) =>
               \E b \in backups \ pre[t].backups : removed \subseteq BackedUp(b)

----------------------------------------------------------------------------
(* C40 *)

\* C40: no thread waits for the store lock while it holds it, and every
\* operation a thread has begun returns in the end and leaves the lock to
\* the others
C40_DeadlockFree ==
    /\ [](\A t \in SharedThreads : spc[t] \in LockPcs => lock # t)
    /\ \A t \in SharedThreads :
           (spc[t] # "idle") ~> (spc[t] = "idle" /\ lock # t)

\* A thread is in the save of its optimize_storage, holding the lock, while
\* another waits for the lock
C40_Witness ==
    /\ op[1].name = "optimize_storage"
    /\ spc[1] \in SavePcs
    /\ lock = 1
    /\ spc[2] \in LockPcs
    /\ op[2].name = "export_conversations"

====
